---- MODULE Spec2Model ----
(***************************************************************************)
(* A model of the simulation core of rmc (rmc-common): the sliding window  *)
(* of chunks (World), copy-on-write chunk grids behind shared handles, and *)
(* the worker-pool chunk streaming pipeline (ChunkLoader).                 *)
(***************************************************************************)
EXTENDS Integers, Sequences, FiniteSets, TLC

(***************************************************************************)
(* Option<T>: None is the empty tuple, Some(v) the one-element tuple.      *)
(***************************************************************************)
None == <<>>
Some(v) == <<v>>
unwrap(o) == o[1]

(***************************************************************************)
(* Program constants.                                                      *)
(***************************************************************************)
CHUNK_SIZE == 16

\* usize arithmetic is modulo 2^64 on the build targets.  TLC integers are
\* 32 bits wide, so the modulus is represented by 2^30: like 2^64 it lies far
\* above every array dimension, which is all that the code depends on.
USIZE_MODULUS == 1073741824

\* Integers up to 2^24 in absolute value are exactly representable as f32.
F32_EXACT == 16777216

\* extents = Vec3::one()
extents == <<1, 1, 1>>

\* (extents * 2 + Vec3::one()): the shape of World.chunks
dim == [i \in 1..3 |-> extents[i] * 2 + 1]

(***************************************************************************)
(* Bounds of the model.                                                    *)
(***************************************************************************)
\* World::set_block calls in a behaviour of SpecEdit
MaxEdits == 2

\* World::set_origin, load and unload calls in a behaviour of SpecWindow
MaxWindowOps == 3

\* ChunkLoader::request calls in a behaviour of SpecLoader
MaxRequests == 3

\* Worker threads: std::thread::available_parallelism() of the machine
NumWorkers == 2

\* Game::update calls that place or destroy a block in a behaviour of SpecLight
MaxLightEdits == 2

\* Game::update calls that place or destroy a block in a behaviour of SpecDrain
MaxDrainEdits == 3

(***************************************************************************)
(* Vec3<i32> as a 3-tuple.                                                 *)
(***************************************************************************)
Vec3Sub(a, b) == [i \in 1..3 |-> a[i] - b[i]]
Vec3Zero == <<0, 0, 0>>

Abs(e) == IF e < 0 THEN -e ELSE e

\* `e as f32`: exact up to 2^24, beyond that rounded to the nearest multiple
\* of the f32 spacing at that magnitude (2, 4, 8, ...), ties to the even
\* mantissa.
RECURSIVE F32Spacing(_, _)
F32Spacing(m, s) == IF m \div s < F32_EXACT THEN s ELSE F32Spacing(m, 2 * s)

AsF32(e) ==
    IF Abs(e) <= F32_EXACT THEN e
    ELSE LET s == F32Spacing(Abs(e), 1)
             lo == (e \div s) * s
             r == e - lo
         IN  IF 2 * r < s THEN lo
             ELSE IF 2 * r > s THEN lo + s
             ELSE IF (lo \div s) % 2 = 0 THEN lo ELSE lo + s

\* i32 -> usize cast (`as_()`): a negative value wraps around.
AsUsize(v) == v % USIZE_MODULUS

\* The remainder of Rust's `%` operator (sign of the dividend); the code uses
\* rem_euclid instead, which is TLA+'s %.
TruncRem(e, n) == IF e >= 0 THEN e % n ELSE -((-e) % n)

(***************************************************************************)
(* Block (block.rs).                                                       *)
(***************************************************************************)
BlockNew(ty) == [ty |-> ty, light |-> 0, open_to_sky |-> FALSE, occluded |-> FALSE]
AIR == BlockNew("Air")
GRASS == BlockNew("Grass")
LANTERN == BlockNew("Lantern")
STONE == BlockNew("Stone")

\* Block::default(): BlockType::Air is the #[default] variant.
BlockDefault == BlockNew("Air")

(***************************************************************************)
(* Array3<Block> of CHUNK_SIZE^3 cells.  A grid is stored as its fill (the *)
(* array it was created as: Array3::default, or the output of              *)
(* generate_chunk for a chunk coordinate) and the cells that differ from   *)
(* the fill, so that two grids are equal exactly when all their cells are. *)
(***************************************************************************)
InGrid(cell) == \A i \in 1..3 : cell[i] \in 0..(CHUNK_SIZE - 1)

\* TerrainSampler::height, the noise term replaced by a fixed pure function
\* of the column with the same range 0..19.
height(x, z) == 32 + ((x * 7 + z * 13) % 20)

\* generate_chunk(&terrain, chunk_coord): a pure function of the coordinate.
GeneratedBlock(chunk_coord, cell) ==
    LET p == [i \in 1..3 |-> chunk_coord[i] * CHUNK_SIZE + cell[i]]
    IN  IF p[2] <= height(p[1], p[3]) THEN STONE ELSE AIR

FillBlock(fill, cell) ==
    IF fill = None THEN BlockDefault ELSE GeneratedBlock(unwrap(fill), cell)

NoEdits == [c \in {} |-> BlockDefault]

\* Array3::default((CHUNK_SIZE, CHUNK_SIZE, CHUNK_SIZE))
DefaultGrid == [fill |-> None, edits |-> NoEdits]

GeneratedGrid(chunk_coord) == [fill |-> Some(chunk_coord), edits |-> NoEdits]

\* blocks.get(cell): None outside the array
GridGet(g, cell) ==
    IF ~InGrid(cell) THEN None
    ELSE IF cell \in DOMAIN g.edits THEN Some(g.edits[cell])
    ELSE Some(FillBlock(g.fill, cell))

\* blocks[cell] = block, for a cell inside the array
GridSet(g, cell, block) ==
    IF block = FillBlock(g.fill, cell)
    THEN [g EXCEPT !.edits = [c \in (DOMAIN g.edits) \ {cell} |-> g.edits[c]]]
    ELSE [g EXCEPT !.edits = [c \in (DOMAIN g.edits) \cup {cell} |->
                                 IF c = cell THEN block ELSE g.edits[c]]]

(***************************************************************************)
(* State.                                                                  *)
(*                                                                         *)
(* world.chunks maps every index of the 3x3x3 array to an Option<Chunk>.   *)
(* World::new fills every slot with Chunk::default(); a slot is None only  *)
(* after set_origin or unload emptied it.  A chunk is a handle into heap,  *)
(* the Rc allocations made so far: cloning a Chunk or a World copies       *)
(* handles, never grids.                                                   *)
(***************************************************************************)
VARIABLES
    world,      \* World: [origin, chunks], chunks[index] an Option<Chunk>
    heap,       \* the Rc allocations: heap[h] is the grid behind handle h
    snapshot,   \* Option<World>: a clone of the World held by a reader
    panicked,   \* the thread has panicked (the program has aborted)
    last,       \* the last call and what it returned
    calls,      \* number of calls made so far (bounded per specification)
    tx,         \* the request channel: coordinates sent and not yet taken
    rx,         \* the result channel: (coord, chunk) sent and not yet received
    thread,     \* thread[w]: the coordinate worker w holds, None when it waits
    requested,  \* the coordinates passed to request, in call order
    received,   \* the requests whose result receive has returned, in order
    game,       \* Game: the loaded blocks, dirty_blocks and block_update_count
    ray,        \* a call of raycast_generalized: its arguments, locals and position
    buffer,     \* ButtonBuffer: per key the one or two events held
    look_back,  \* LookBack<T>: [prev, curr]
    hotbar,     \* Hotbar: the active slot index
    drain,      \* Game::update_blocks in progress: its locals and position
    input,      \* InputState: the ButtonState held for each key seen
    camera,     \* Game.camera: the position of the viewpoint
    motion,     \* Game.velocity and Game.on_ground
    chunk_loader \* ChunkLoader: whether a handle is alive, and how each worker ended

loaderVars == <<tx, rx, thread, requested, received>>

otherVars == <<buffer, look_back, hotbar, drain, input, camera, motion, chunk_loader>>

vars == <<world, heap, snapshot, panicked, last, calls, tx, rx, thread, requested, received,
          game, ray, buffer, look_back, hotbar, drain, input, camera, motion, chunk_loader>>

\* The indices of World.chunks
Indices == {<<a, b, c>> : a \in 0..(dim[1] - 1), b \in 0..(dim[2] - 1), c \in 0..(dim[3] - 1)}

\* Chunk { blocks: Rc<Array3<Block>> }
Chunk(h) == [blocks |-> h]

\* Rc::new(grid): the handle of a fresh allocation
RcNew(hp) == Len(hp) + 1

(***************************************************************************)
(* World (world.rs).                                                       *)
(***************************************************************************)
\* position.map(|e| (e as f32 / CHUNK_SIZE as f32).floor() as i32)
world_to_chunk(position) == [i \in 1..3 |-> AsF32(position[i]) \div CHUNK_SIZE]

\* A one-sided window test that also wraps the index into the array: a ring
\* buffer indexed by chunk coordinate.
chunk_to_index_ring(origin, chunk_coord) ==
    Some([i \in 1..3 |-> (chunk_coord[i] - origin[i] + extents[i]) % dim[i]])

\* The part of World::chunk_index after the coordinate conversion.
chunk_to_index(origin, chunk_coord) ==
    LET offset == Vec3Sub(chunk_coord, origin)
    IN  IF \E i \in 1..3 : offset[i] > extents[i] THEN None
        ELSE Some([i \in 1..3 |-> AsUsize(offset[i] + extents[i])])

chunk_index(w, position) == chunk_to_index(w.origin, world_to_chunk(position))

\* self.chunks.get(index) / get_mut(index): None outside the array
SlotGet(chunks, index) == IF index \in DOMAIN chunks THEN Some(index) ELSE None

\* World::chunk_at_mut: the slot holding the chunk of `position`, if any
\* (none when chunk_index is None, when the index lies outside the array, and
\* when the slot is empty).
chunk_at_mut(w, position) ==
    LET index == chunk_index(w, position)
    IN  IF index = None THEN None
        ELSE LET slot == SlotGet(w.chunks, unwrap(index))
             IN  IF slot = None \/ w.chunks[unwrap(slot)] = None THEN None ELSE slot

\* World::chunk_at
chunk_at(w, position) ==
    LET slot == chunk_at_mut(w, position)
    IN  IF slot = None THEN None ELSE w.chunks[unwrap(slot)]

\* get_block with the local cell taken by the truncating remainder.
get_block_trunc(w, hp, position) ==
    LET chunk == chunk_at(w, position)
        chunk_offset == [i \in 1..3 |-> AsUsize(TruncRem(position[i], CHUNK_SIZE))]
    IN  IF chunk = None THEN None
        ELSE GridGet(hp[unwrap(chunk).blocks], chunk_offset)

\* World::get_block
get_block(w, hp, position) ==
    LET chunk == chunk_at(w, position)
        chunk_offset == [i \in 1..3 |-> AsUsize(position[i] % CHUNK_SIZE)]
    IN  IF chunk = None THEN None
        ELSE GridGet(hp[unwrap(chunk).blocks], chunk_offset)

\* set_block writing through the shared handle instead of a clone.
set_block_in_place(w, hp, position, block) ==
    LET slot == chunk_at_mut(w, position)
        chunk_offset == [i \in 1..3 |-> AsUsize(position[i] % CHUNK_SIZE)]
    IN  IF slot = None \/ ~InGrid(chunk_offset)
        THEN [world |-> w, heap |-> hp, ret |-> "panic"]
        ELSE LET h == unwrap(w.chunks[unwrap(slot)]).blocks
             IN  [world |-> w,
                  heap |-> [hp EXCEPT ![h] = GridSet(hp[h], chunk_offset, block)],
                  ret |-> "ok"]

\* World::set_block: the World and the heap after the call, and how it ended.
\* chunk_at_mut(position).unwrap() panics when there is no chunk; otherwise the
\* grid is cloned (Rc::clone makes the handle shared, so unwrap_or_clone always
\* clones), the clone is written and published under a new handle.
set_block(w, hp, position, block) ==
    LET slot == chunk_at_mut(w, position)
        chunk_offset == [i \in 1..3 |-> AsUsize(position[i] % CHUNK_SIZE)]
    IN  IF slot = None \/ ~InGrid(chunk_offset)
        THEN [world |-> w, heap |-> hp, ret |-> "panic"]
        ELSE LET new_blocks == GridSet(hp[unwrap(w.chunks[unwrap(slot)]).blocks],
                                       chunk_offset, block)
             IN  [world |-> [w EXCEPT !.chunks[unwrap(slot)] = Some(Chunk(RcNew(hp)))],
                  heap |-> Append(hp, new_blocks),
                  ret |-> "ok"]

\* World::new(origin): every slot holds Chunk::default(), each with its own
\* allocation.
IndexNumber(index) == index[1] * dim[2] * dim[3] + index[2] * dim[3] + index[3] + 1

WorldNew(origin) ==
    [origin |-> origin,
     chunks |-> [index \in Indices |-> Some(Chunk(IndexNumber(index)))]]

HeapNew == [h \in 1..Cardinality(Indices) |-> DefaultGrid]

\* chunks_iter with the extents added instead of subtracted.
index_to_coord_plus(origin, index) ==
    [i \in 1..3 |-> index[i] + extents[i] + origin[i]]

\* The coordinate World::chunks_iter gives the slot at `index`:
\* index - self.extents + self.origin
index_to_coord(origin, index) ==
    [i \in 1..3 |-> index[i] - extents[i] + origin[i]]

\* World::chunks_iter: the (coordinate, chunk) pairs of the loaded slots.
chunks_iter(w) ==
    {<<index_to_coord(w.origin, index), unwrap(w.chunks[index])>> :
        index \in {i \in Indices : w.chunks[i] # None}}

\* World::unloaded_chunks: the coordinates of the empty slots.
unloaded_chunks(w) ==
    {index_to_coord(w.origin, index) : index \in {i \in Indices : w.chunks[i] = None}}

\* World::load that evicts the chunk of an occupied slot instead of replacing it.
load_toggle(w, chunk_coord, chunk) ==
    LET index == chunk_to_index(w.origin, chunk_coord)
    IN  IF index = None \/ SlotGet(w.chunks, unwrap(index)) = None THEN w
        ELSE IF w.chunks[unwrap(index)] # None
             THEN [w EXCEPT !.chunks[unwrap(index)] = None]
             ELSE [w EXCEPT !.chunks[unwrap(index)] = Some(chunk)]

\* World::load(chunk_coord, chunk): the chunk is put in the slot of its
\* coordinate; nothing happens when the coordinate has no slot in the window.
load(w, chunk_coord, chunk) ==
    LET index == chunk_to_index(w.origin, chunk_coord)
    IN  IF index = None \/ SlotGet(w.chunks, unwrap(index)) = None THEN w
        ELSE [w EXCEPT !.chunks[unwrap(index)] = Some(chunk)]

\* World::unload(chunk_coord): the slot of the coordinate is emptied; nothing
\* happens when the coordinate has no slot in the window.
unload(w, chunk_coord) ==
    LET index == chunk_to_index(w.origin, chunk_coord)
    IN  IF index = None \/ SlotGet(w.chunks, unwrap(index)) = None THEN w
        ELSE [w EXCEPT !.chunks[unwrap(index)] = None]

\* World::set_origin(new_origin): every loaded chunk moves to the index of its
\* coordinate under the new origin; a chunk whose coordinate has no index
\* there is dropped, and the slots nothing moved to are empty.
set_origin(w, new_origin) ==
    LET placed == {<<chunk_to_index(new_origin, c[1]), c[2]>> : c \in chunks_iter(w)}
    IN  [origin |-> new_origin,
         chunks |-> [index \in Indices |->
                        IF \E p \in placed : p[1] = Some(index)
                        THEN Some((CHOOSE p \in placed : p[1] = Some(index))[2])
                        ELSE None]]

\* The World by value: the origin and, for every slot, the blocks of its chunk
\* (Chunk derives PartialEq, and Rc compares the grids it points to).
WorldValue(w, hp) ==
    [origin |-> w.origin,
     chunks |-> [index \in Indices |->
                    IF w.chunks[index] = None THEN None
                    ELSE Some(hp[unwrap(w.chunks[index]).blocks])]]

(***************************************************************************)
(* Inputs.                                                                 *)
(***************************************************************************)
\* Per-axis world coordinates: the first and the last cell of the chunks from
\* two chunks below to two chunks above a window centred on chunk 0.
AxisProbes ==
    {c * CHUNK_SIZE + l : c \in -(extents[1] + 2)..(extents[1] + 2), l \in {0, CHUNK_SIZE - 1}}

Positions ==
    {<<v, 4, -1>> : v \in AxisProbes}
        \cup {<<-4, v, 4>> : v \in {-17, -4, 32}}
        \cup {<<4, 4, v>> : v \in {-20, -8, 33}}

EditBlocks == {GRASS, AIR}

Origins == {Vec3Zero, <<1, 0, 0>>, <<0, -1, 0>>}

NewOrigins == {Vec3Zero, <<1, 0, 0>>, <<-1, 0, 0>>, <<0, 1, -1>>, <<2, 0, 0>>, <<0, 0, -3>>}

ChunkCoords == {Vec3Zero, <<1, 0, 0>>, <<2, 0, 0>>, <<-2, 0, 0>>, <<-1, 1, 0>>, <<0, 0, -2>>}

GenCoords == {Vec3Zero, <<1, 0, 0>>}

RequestCoords == {<<1, 0, 0>>, <<-1, 1, 0>>, <<-2, 0, 0>>}

(***************************************************************************)
(* Actions.                                                                *)
(***************************************************************************)
Workers == 1..NumWorkers

\* ChunkLoader::new: the handle the Game holds is alive and every worker runs
\* its loop.  alive is false once every ChunkLoader handle has been dropped,
\* and with them the request sender and the result receiver.
ChunkLoaderNew == [alive |-> TRUE, ended |-> [w \in Workers |-> "running"]]

\* No key event, frame or tick has been handled yet.
InitTick ==
    /\ input = None
    /\ camera = None
    /\ motion = None
    /\ chunk_loader = ChunkLoaderNew

InitOther ==
    /\ InitTick
    /\ buffer = None
    /\ look_back = None
    /\ hotbar = None
    /\ drain = None

\* ChunkLoader::new: two unbounded channels and the workers waiting in recv().
InitLoader ==
    /\ tx = <<>>
    /\ rx = <<>>
    /\ thread = [w \in Workers |-> None]
    /\ requested = <<>>
    /\ received = <<>>

\* ChunkLoader::request(chunk_coord): tx.send on an unbounded channel.  The
\* message carries the coordinate; id numbers the request among all requests.
Request ==
    /\ ~panicked
    /\ chunk_loader.alive
    /\ calls < MaxRequests
    /\ \E chunk_coord \in RequestCoords :
          /\ tx' = Append(tx, [id |-> Len(requested) + 1, chunk_coord |-> chunk_coord])
          /\ requested' = Append(requested, chunk_coord)
          /\ last' = [op |-> "request"]
    /\ calls' = calls + 1
    /\ UNCHANGED <<game, ray, world, heap, snapshot, panicked, rx, thread, received, otherVars>>

\* A worker that reads the request without taking it off the channel.
WorkerRecvPeek(w) ==
    /\ thread[w] = None
    /\ tx # <<>>
    /\ thread' = [thread EXCEPT ![w] = Some(Head(tx))]
    /\ UNCHANGED <<game, ray, world, heap, snapshot, panicked, last, calls, tx, rx, requested, received, otherVars>>

\* Worker w: `while let Ok(chunk_coord) = thread_rx.recv()` takes the oldest
\* request off the channel; it waits while there is none and a sender is
\* alive, and recv() is Err, which ends the loop and the thread, once there
\* is none and every sender has been dropped.
WorkerRecv(w) ==
    /\ thread[w] = None
    /\ chunk_loader.ended[w] = "running"
    /\ tx # <<>> \/ ~chunk_loader.alive
    /\ IF tx # <<>>
       THEN /\ thread' = [thread EXCEPT ![w] = Some(Head(tx))]
            /\ tx' = Tail(tx)
            /\ UNCHANGED chunk_loader
       ELSE /\ chunk_loader' = [chunk_loader EXCEPT !.ended[w] = "exited"]
            /\ UNCHANGED <<thread, tx>>
    /\ UNCHANGED <<game, ray, world, heap, snapshot, panicked, last, calls, rx, requested, received,
                   buffer, look_back, hotbar, drain, input, camera, motion>>

\* A worker sending on a result channel of capacity one with try_send: the
\* chunk is dropped when a result is already waiting.
WorkerSendLossy(w) ==
    /\ thread[w] # None
    /\ LET req == unwrap(thread[w])
       IN  /\ heap' = Append(heap, GeneratedGrid(req.chunk_coord))
           /\ rx' = IF rx # <<>> THEN rx
                    ELSE Append(rx, [id |-> req.id, chunk_coord |-> req.chunk_coord,
                                     chunk |-> Chunk(RcNew(heap))])
    /\ thread' = [thread EXCEPT ![w] = None]
    /\ UNCHANGED <<game, ray, world, snapshot, panicked, last, calls, tx, requested, received, otherVars>>

\* Worker w: thread_tx.send((chunk_coord, generate_chunk(&terrain, chunk_coord)))
\* .unwrap(): the chunk is generated and sent; send is Err once the receiver
\* has been dropped, and unwrap then panics in the worker's thread.
WorkerSend(w) ==
    /\ thread[w] # None
    /\ LET req == unwrap(thread[w])
       IN  /\ heap' = Append(heap, GeneratedGrid(req.chunk_coord))
           /\ IF chunk_loader.alive
              THEN /\ rx' = Append(rx, [id |-> req.id, chunk_coord |-> req.chunk_coord,
                                        chunk |-> Chunk(RcNew(heap))])
                   /\ UNCHANGED chunk_loader
              ELSE /\ chunk_loader' = [chunk_loader EXCEPT !.ended[w] = "panicked"]
                   /\ UNCHANGED rx
    /\ thread' = [thread EXCEPT ![w] = None]
    /\ UNCHANGED <<game, ray, world, snapshot, panicked, last, calls, tx, requested, received,
                   buffer, look_back, hotbar, drain, input, camera, motion>>

\* rx.try_recv(): the oldest result, or Empty
try_recv(q) == IF q = <<>> THEN None ELSE Some(Head(q))

\* receive built on the blocking rx.recv(): the caller waits for a result.
ReceiveBlocking ==
    /\ ~panicked
    /\ rx # <<>>
    /\ world' = load(world, Head(rx).chunk_coord, Head(rx).chunk)
    /\ rx' = Tail(rx)
    /\ received' = Append(received, Head(rx).id)
    /\ last' = [op |-> "receive", ready |-> TRUE,
                ret |-> Some(<<Head(rx).chunk_coord, Head(rx).chunk>>)]
    /\ UNCHANGED <<game, ray, heap, snapshot, panicked, calls, tx, thread, requested, otherVars>>

\* One iteration of `while let Some((chunk_coord, chunk)) =
\* self.chunk_loader.receive() { self.world.load(chunk_coord, chunk) }`:
\* ChunkLoader::receive, and World::load of what it returned.  On None the
\* loop ends and nothing is loaded.  (try_recv's Disconnected error needs
\* every worker to have ended, and a worker ends only when every handle has
\* been dropped: no caller is left then.)
Receive ==
    /\ ~panicked
    /\ chunk_loader.alive
    /\ LET r == try_recv(rx)
       IN  /\ last' = [op |-> "receive", ready |-> rx # <<>>,
                       ret |-> IF r = None THEN None
                               ELSE Some(<<unwrap(r).chunk_coord, unwrap(r).chunk>>)]
           /\ IF r = None
              THEN UNCHANGED <<world, rx, received>>
              ELSE /\ world' = load(world, unwrap(r).chunk_coord, unwrap(r).chunk)
                   /\ rx' = Tail(rx)
                   /\ received' = Append(received, unwrap(r).id)
    /\ UNCHANGED <<game, ray, heap, snapshot, panicked, calls, tx, thread, requested, otherVars>>

\* World::set_block(position, block)
SetBlock ==
    /\ ~panicked
    /\ calls < MaxEdits
    /\ \E position \in Positions, block \in EditBlocks :
          LET r == set_block(world, heap, position, block)
          IN  /\ world' = r.world
              /\ heap' = r.heap
              /\ panicked' = (r.ret = "panic")
              /\ last' = [op |-> "set_block", position |-> position, block |-> block,
                          ret |-> r.ret, loaded |-> chunk_at(world, position) # None,
                          before |-> world]
    /\ calls' = calls + 1
    /\ UNCHANGED <<game, ray, snapshot, loaderVars, otherVars>>

\* self.clone() (Game::update, LookBack): the reader's World shares every
\* chunk handle with the live World.
Snapshot ==
    /\ ~panicked
    /\ snapshot # Some(world)
    /\ snapshot' = Some(world)
    /\ last' = [op |-> "clone"]
    /\ UNCHANGED <<game, ray, world, heap, panicked, calls, loaderVars, otherVars>>

\* World::set_origin(new_origin)
SetOrigin ==
    /\ ~panicked
    /\ calls < MaxWindowOps
    /\ \E new_origin \in NewOrigins :
          /\ world' = set_origin(world, new_origin)
          /\ last' = [op |-> "set_origin", origin |-> new_origin, before |-> world]
    /\ calls' = calls + 1
    /\ UNCHANGED <<game, ray, heap, snapshot, panicked, loaderVars, otherVars>>

\* world.load(chunk_coord, chunk) with chunk = generate_chunk(terrain, gen)
Load ==
    /\ ~panicked
    /\ calls < MaxWindowOps
    /\ \E chunk_coord \in ChunkCoords, gen \in GenCoords :
          /\ heap' = Append(heap, GeneratedGrid(gen))
          /\ world' = load(world, chunk_coord, Chunk(RcNew(heap)))
          /\ last' = [op |-> "load", chunk_coord |-> chunk_coord, gen |-> gen,
                      before |-> world,
                      repeat |-> /\ last.op = "load"
                                 /\ last.chunk_coord = chunk_coord
                                 /\ last.gen = gen]
    /\ calls' = calls + 1
    /\ UNCHANGED <<game, ray, snapshot, panicked, loaderVars, otherVars>>

\* world.unload(chunk_coord)
Unload ==
    /\ ~panicked
    /\ calls < MaxWindowOps
    /\ \E chunk_coord \in ChunkCoords :
          /\ world' = unload(world, chunk_coord)
          /\ last' = [op |-> "unload", chunk_coord |-> chunk_coord, before |-> world]
    /\ calls' = calls + 1
    /\ UNCHANGED <<game, ray, heap, snapshot, panicked, loaderVars, otherVars>>

InitEdit ==
    /\ world \in {WorldNew(o) : o \in Origins}
    /\ heap = HeapNew
    /\ snapshot = None
    /\ panicked = FALSE
    /\ last = [op |-> "new"]
    /\ calls = 0
    /\ InitLoader
    /\ game = None
    /\ ray = None
    /\ InitOther

NextEdit == SetBlock \/ Snapshot

SpecEdit == InitEdit /\ [][NextEdit]_vars

\* Game::new: World::new(Vec3::zero())
InitWindow ==
    /\ world = WorldNew(Vec3Zero)
    /\ heap = HeapNew
    /\ snapshot = None
    /\ panicked = FALSE
    /\ last = [op |-> "new"]
    /\ calls = 0
    /\ InitLoader
    /\ game = None
    /\ ray = None
    /\ InitOther

NextWindow == SetOrigin \/ Load \/ Unload

SpecWindow == InitWindow /\ [][NextWindow]_vars

NextLoader ==
    \/ Request
    \/ \E w \in Workers : WorkerRecv(w)
    \/ \E w \in Workers : WorkerSend(w)
    \/ Receive

SpecLoader == InitWindow /\ [][NextLoader]_vars

\* The scheduler runs every worker thread that can take a step.
SpecLoaderFair ==
    /\ SpecLoader
    /\ \A w \in Workers : WF_vars(WorkerRecv(w)) /\ WF_vars(WorkerSend(w))

(***************************************************************************)
(* BlockType properties (block.rs) and the lighting rule (light.rs).       *)
(***************************************************************************)
MESH == BlockNew("Mesh")

\* #[assoc(light_passing = true)] on Air and Mesh, false otherwise
light_passing(ty) == ty \in {"Air", "Mesh"}

\* #[assoc(light_emission = 224)] on Lantern, None otherwise
light_emission(ty) == IF ty = "Lantern" THEN Some(224) ELSE None

\* const MAX_UPDATES_COUNT: usize = 2048
MAX_UPDATES_COUNT == 2048

Vec3Add(a, b) == [i \in 1..3 |-> a[i] + b[i]]
unit_y == <<0, 1, 0>>

Range(f) == {f[i] : i \in DOMAIN f}

\* face_neighbors(position): the six positions one step away along an axis
face_neighbors(position) ==
    << Vec3Add(position, <<1, 0, 0>>), Vec3Add(position, <<-1, 0, 0>>),
       Vec3Add(position, <<0, 1, 0>>), Vec3Add(position, <<0, -1, 0>>),
       Vec3Add(position, <<0, 0, 1>>), Vec3Add(position, <<0, 0, -1>>) >>

\* Game reads its World through get_block and writes it through set_block
\* only.  `blocks` is the World as those two calls see it: the function from
\* the loaded positions to their blocks; get_block is None where nothing is
\* loaded.
world_get_block(blocks, position) ==
    IF position \in DOMAIN blocks THEN Some(blocks[position]) ELSE None

\* world.set_block(position, block): Ok exactly on a loaded position
world_set_block(blocks, position, block) ==
    IF position \in DOMAIN blocks
    THEN [blocks |-> [blocks EXCEPT ![position] = block], is_ok |-> TRUE]
    ELSE [blocks |-> blocks, is_ok |-> FALSE]

\* LET x == e IN F(x), with e evaluated once however often F uses x
With(e, F(_)) == CHOOSE r \in {F(x) : x \in {e}} : TRUE

\* (16.0 * distance) as u8, distance the Euclidean distance of the two
\* positions: the integer part of sqrt(256 * |position - p|^2).  The
\* assertion distance <= 2.0 holds for every face neighbor (distance 1), so
\* the result is at most 32.
attenuation(position, p) ==
    With(Vec3Sub(position, p), LAMBDA d :
    With(256 * (d[1] * d[1] + d[2] * d[2] + d[3] * d[3]), LAMBDA sq :
        CHOOSE r \in 0..32 : r * r <= sq /\ (r + 1) * (r + 1) > sq))

calculate_light_from_no_attenuation(position, block, p, b, source) ==
    IF b.light < block.light /\ Some(p) = source THEN 0 ELSE b.light

\* calculate_light_from((position, block), (p, b), source)
calculate_light_from(position, block, p, b, source) ==
    With(attenuation(position, p), LAMBDA a :
    With(IF b.light >= a THEN b.light - a ELSE 0, LAMBDA new_light :
        IF new_light < block.light /\ Some(p) = source THEN 0 ELSE new_light))

calculate_light_min(position, block, checks, source) ==
    With({calculate_light_from(position, block, c[1], c[2], source) : c \in checks},
         LAMBDA lights :
            IF lights = {} THEN 0 ELSE CHOOSE l \in lights : \A m \in lights : l <= m)

\* calculate_light: .max().unwrap_or(0) over the checks
calculate_light(position, block, checks, source) ==
    With({calculate_light_from(position, block, c[1], c[2], source) : c \in checks},
         LAMBDA lights :
            IF lights = {} THEN 0 ELSE CHOOSE l \in lights : \A m \in lights : m <= l)

\* calculate_block_light(world, position, block, source)
calculate_block_light(blocks, position, block, source) ==
    IF light_passing(block.ty) /\ block.open_to_sky THEN 255
    ELSE IF light_emission(block.ty) # None THEN unwrap(light_emission(block.ty))
    ELSE IF light_passing(block.ty)
         THEN With({<<p, blocks[p]>> :
                       p \in {n \in Range(face_neighbors(position)) : n \in DOMAIN blocks}},
                   LAMBDA all_neighbors :
                       calculate_light(position, block, all_neighbors, source))
    ELSE 0

(***************************************************************************)
(* Game::update_blocks and Game::set_block (game.rs).                      *)
(***************************************************************************)
BlockUpdate(target, source, state_changed) ==
    [target |-> target, source |-> source, state_changed |-> state_changed]

\* open_to_sky of the loop body: the block above is not loaded, or it lets
\* light pass and is itself open to the sky
open_to_sky_at_closed_border(blocks, position) ==
    With(world_get_block(blocks, Vec3Add(position, unit_y)), LAMBDA block_above :
        IF block_above # None
        THEN light_passing(unwrap(block_above).ty) /\ unwrap(block_above).open_to_sky
        ELSE FALSE)
open_to_sky_at(blocks, position) ==
    With(world_get_block(blocks, Vec3Add(position, unit_y)), LAMBDA block_above :
        IF block_above # None
        THEN light_passing(unwrap(block_above).ty) /\ unwrap(block_above).open_to_sky
        ELSE TRUE)

\* occluded of the loop body: every face neighbor is loaded and lets no light
\* pass
occluded_at(blocks, position) ==
    \A n \in Range(face_neighbors(position)) :
        IF n \in DOMAIN blocks THEN ~light_passing(blocks[n].ty) ELSE FALSE

new_block_at_no_cascade(blocks, position, source) ==
    With(world_get_block(blocks, Vec3Add(position, unit_y)), LAMBDA block_above :
    With([blocks[position] EXCEPT
             !.open_to_sky = IF block_above # None
                             THEN light_passing(unwrap(block_above).ty) ELSE TRUE],
         LAMBDA nb :
            [nb EXCEPT !.light = calculate_block_light(blocks, position, nb, source)]))

\* The block the loop body computes for one popped update (new_block)
new_block_at(blocks, position, source) ==
    With([blocks[position] EXCEPT !.open_to_sky = open_to_sky_at(blocks, position),
                                  !.occluded = occluded_at(blocks, position)],
         LAMBDA nb :
            [nb EXCEPT !.light = calculate_block_light(blocks, position, nb, source)])

\* The updates pushed for the six neighbours of position
neighbor_updates(position, should_notify_neighbor) ==
    LET ns == face_neighbors(position)
    IN  [k \in 1..6 |-> BlockUpdate(ns[k], Some(ns[k]), should_notify_neighbor)]

\* `for BlockUpdate { .. } in dirty_blocks` for one batch: dirty is the batch
\* popped from the queue and rest what the queue still holds.  The world is
\* not written while the loop runs, so every update of the batch is computed
\* against the same blocks:
\*   computed  the new_block of every update whose target is loaded;
\*   changing  the updates whose new_block differs from the block;
\*   first     for every target of a changing update, the first of them:
\*             the update that inserts the target into `replaces`;
\*   an update reaches the loop body unless its target is not loaded
\*   (`continue`) or an earlier update has inserted the target into
\*   `replaces` (`continue`);
\*   notifying the updates with should_notify_neighbor;
\*   pushers   the updates that push the six neighbor updates, in order.
for_dirty_blocks(blocks, dirty, rest) ==
    LET position(i) == dirty[i].target
        Computed ==
            {<<i, new_block_at(blocks, position(i), dirty[i].source)>> :
                i \in {j \in 1..Len(dirty) : position(j) \in DOMAIN blocks}}
        Changing(computed) == {c \in computed : c[2] # blocks[position(c[1])]}
        First(changing) ==
            {c \in changing :
                \A d \in changing : position(d[1]) = position(c[1]) => c[1] <= d[1]}
        Notifying(changing) ==
            {c[1] : c \in {d \in changing :
                \/ blocks[position(d[1])].light # d[2].light
                \/ blocks[position(d[1])].open_to_sky # d[2].open_to_sky}}
        reaches_body(first, i) ==
            /\ position(i) \in DOMAIN blocks
            /\ \A c \in first : position(c[1]) = position(i) => i <= c[1]
        Pushers(first, notifying) ==
            SelectSeq([i \in 1..Len(dirty) |-> i],
                      LAMBDA i : /\ reaches_body(first, i)
                                 /\ \/ dirty[i].source = None
                                    \/ i \in notifying
                                    \/ dirty[i].state_changed)
        Pushed(notifying, pushers) ==
            [k \in 1..(6 * Len(pushers)) |->
                neighbor_updates(position(pushers[((k - 1) \div 6) + 1]),
                                 pushers[((k - 1) \div 6) + 1] \in notifying)[((k - 1) % 6) + 1]]
    IN  With(Changing(Computed), LAMBDA changing :
        With(First(changing), LAMBDA first :
        With(Notifying(changing), LAMBDA notifying :
        With(Pushers(first, notifying), LAMBDA pushers :
            [replaces |-> [p \in {position(c[1]) : c \in first} |->
                              (CHOOSE c \in first : position(c[1]) = p)[2]],
             queue |-> rest \o Pushed(notifying, pushers)]))))

Min(a, b) == IF a <= b THEN a ELSE b

\* One iteration of the while loop of update_blocks: the batch is popped from
\* the front of the queue (SegQueue is first-in first-out), the for loop
\* runs, then every replacement is written with set_block1.
batch(g) ==
    With(Min(Len(g.dirty_blocks), MAX_UPDATES_COUNT), LAMBDA update_count :
    With(g.blocks, LAMBDA blocks :
    With(SubSeq(g.dirty_blocks, 1, update_count), LAMBDA dirty :
    With(SubSeq(g.dirty_blocks, update_count + 1, Len(g.dirty_blocks)), LAMBDA rest :
    With(for_dirty_blocks(blocks, dirty, rest), LAMBDA r :
        [blocks |-> r.replaces @@ blocks,
         dirty_blocks |-> r.queue,
         block_update_count |-> g.block_update_count + update_count])))))

\* while self.block_update_count < MAX_UPDATES_COUNT && self.dirty_blocks.len() != 0
RECURSIVE while_dirty(_)
while_dirty(g) ==
    IF g.block_update_count < MAX_UPDATES_COUNT /\ Len(g.dirty_blocks) # 0
    THEN With(batch(g), while_dirty)
    ELSE g

update_blocks_stalled(g) == [g EXCEPT !.block_update_count = 0]

\* Game::update_blocks
update_blocks(g) == With([g EXCEPT !.block_update_count = 0], while_dirty)

game_set_block_quiet_destroy(g, position, block) ==
    LET r == world_set_block(g.blocks, position, block)
    IN  IF r.is_ok
        THEN [g EXCEPT !.blocks = r.blocks,
                       !.dirty_blocks = IF block.ty = "Air" THEN @
                                        ELSE Append(@, BlockUpdate(position, None, TRUE))]
        ELSE g

\* Game::set_block(position, block) = set_block1(position, block, true)
game_set_block(g, position, block) ==
    LET r == world_set_block(g.blocks, position, block)
    IN  IF r.is_ok
        THEN [g EXCEPT !.blocks = r.blocks,
                       !.dirty_blocks = Append(@, BlockUpdate(position, None, TRUE))]
        ELSE g

(***************************************************************************)
(* The lighting state machine: Game::update as far as it touches blocks.   *)
(***************************************************************************)
\* The loaded positions: a box from the zero position to hi
Box(hi) == {<<x, y, z>> : x \in 0..hi[1], y \in 0..hi[2], z \in 0..hi[3]}

\* A block after the lighting engine has processed it
LitBlock(ty, light, open_to_sky) ==
    [ty |-> ty, light |-> light, open_to_sky |-> open_to_sky, occluded |-> FALSE]

\* Air under the world ceiling, lit: every block open to the sky
OpenAir(hi) == [p \in Box(hi) |-> LitBlock("Air", 255, TRUE)]

\* A dug-out cave, lit: a roof of stone on the top layer, dark air below
DarkCave(hi) ==
    [p \in Box(hi) |-> IF p[2] = hi[2] THEN LitBlock("Stone", 0, TRUE)
                       ELSE LitBlock("Air", 0, FALSE)]

\* The fields of Game that update_blocks and set_block read: the world as
\* get_block sees it, the queue and the count of the tick.
\* total_block_update_count is written only, a running total that no branch
\* reads, and is left out.
GameNew(blocks) == [blocks |-> blocks, dirty_blocks |-> <<>>, block_update_count |-> 0]

\* The worlds of SpecLight: open air four blocks wide and three high, and a
\* cave sixteen blocks long under its roof, long enough for the light of a
\* lantern to fade out inside it.
LightWorlds == {OpenAir(<<3, 2, 0>>), DarkCave(<<15, 2, 0>>)}

\* What the mouse buttons place and destroy (handle_place_destroy): a
\* lantern under the roof, stone and air in the column next to it.
LightEdits ==
    { <<<<1, 1, 0>>, LANTERN>>, <<<<1, 1, 0>>, AIR>>,
      <<<<2, 1, 0>>, STONE>>,   <<<<2, 1, 0>>, AIR>>,
      <<<<2, 2, 0>>, STONE>>,   <<<<2, 2, 0>>, AIR>> }

\* The world of SpecDrain: a cave of 4 x 4 x 4 blocks, where the updates of
\* one edit outnumber MAX_UPDATES_COUNT.
DrainWorlds == {DarkCave(<<3, 3, 3>>)}

DrainEdits ==
    { <<<<1, 1, 0>>, LANTERN>>, <<<<1, 1, 0>>, AIR>> }

\* Game::update with one mouse button just pressed: handle_place_destroy
\* calls set_block, then update_blocks runs.  last keeps the Game before
\* this call and before the previous such call.
UpdateEdit(edits, bound) ==
    /\ ~panicked
    /\ calls < bound
    /\ \E e \in edits :
          /\ game' = update_blocks(game_set_block(game, e[1], e[2]))
          /\ last' = [op |-> "set_block", position |-> e[1], block |-> e[2],
                      before |-> game,
                      prev |-> IF last.op = "set_block"
                               THEN Some([position |-> last.position, block |-> last.block,
                                          before |-> last.before])
                               ELSE None]
    /\ calls' = calls + 1
    /\ UNCHANGED <<world, heap, snapshot, panicked, loaderVars, ray, otherVars>>

\* Game::update with no mouse button pressed: update_blocks alone
UpdateIdle ==
    /\ ~panicked
    /\ game' = update_blocks(game)
    /\ UNCHANGED <<world, heap, snapshot, panicked, last, calls, loaderVars, ray, otherVars>>

InitGame(worlds) ==
    /\ game \in {GameNew(blocks) : blocks \in worlds}
    /\ ray = None
    /\ InitOther
    /\ world = WorldNew(Vec3Zero)
    /\ heap = HeapNew
    /\ snapshot = None
    /\ panicked = FALSE
    /\ last = [op |-> "new"]
    /\ calls = 0
    /\ InitLoader

NextLight == UpdateEdit(LightEdits, MaxLightEdits) \/ UpdateIdle

InitLight == InitGame(LightWorlds)

SpecLight == InitLight /\ [][NextLight]_vars

InitDrain == InitGame(DrainWorlds)

NextDrain == UpdateEdit(DrainEdits, MaxDrainEdits) \/ UpdateIdle

SpecDrain == InitDrain /\ [][NextDrain]_vars

\* Game::update runs every tick.
SpecDrainFair == SpecDrain /\ WF_vars(UpdateIdle)

(***************************************************************************)
(* sweep_test (physics.rs).                                                *)
(*                                                                         *)
(* Lengths and velocities are whole tenths of a block, which f32 adds and  *)
(* subtracts exactly.  A quotient of two of them is kept as the pair       *)
(* <<numerator, denominator>> with a positive denominator; -inf and +inf    *)
(* are <<-1, 0>> and <<1, 0>>.  Two quotients of such small numbers round  *)
(* to the same f32 only when they are equal, so comparing the pairs        *)
(* compares the f32 values.                                                *)
(***************************************************************************)
NEG_INFINITY == <<-1, 0>>
INFINITY == <<1, 0>>

\* enter / velocity for velocity # 0.0
F32Div(n, d) == IF d > 0 THEN <<n, d>> ELSE <<-n, -d>>

F32Lt(p, q) ==
    IF p[2] = 0 /\ q[2] = 0 THEN p[1] < q[1] ELSE p[1] * q[2] < q[1] * p[2]

F32Gt(p, q) == F32Lt(q, p)

\* f32::max and f32::min
F32Max(p, q) == IF F32Lt(p, q) THEN q ELSE p
F32Min(p, q) == IF F32Lt(q, p) THEN q ELSE p

F32Zero == <<0, 1>>
F32One == <<1, 1>>

\* f32::signum: 1.0 for +0.0 and above, -1.0 below
signum(v) == IF v >= 0 THEN 1 ELSE -1

\* Vec3::normalized: v over its magnitude, kept as v and the square of the
\* magnitude.  A vector that is not normalized is kept over 1.
normalized(v) == [v |-> v, magnitude_squared |-> v[1] * v[1] + v[2] * v[2] + v[3] * v[3]]
Vec3New(x, y, z) == [v |-> <<x, y, z>>, magnitude_squared |-> 1]

SweepTestResult(normal, time) == [normal |-> normal, time |-> time]

calc_axis_abs_swapped(a_min, a_max, b_min, b_max, direction) ==
    IF direction > 0 THEN <<b_max - a_min, b_min - a_max>>
    ELSE <<b_min - a_max, b_max - a_min>>

\* calc_axis_abs: (enter, exit) distances along one axis
calc_axis_abs(a_min, a_max, b_min, b_max, direction) ==
    IF direction > 0 THEN <<b_min - a_max, b_max - a_min>>
    ELSE <<b_max - a_min, b_min - a_max>>

calc_axis_abs_aabb(a, b, velocity, axis) ==
    calc_axis_abs(a.collider.min[axis], a.collider.max[axis],
                  b.min[axis], b.max[axis], velocity[axis])

\* calc_axis_rel: (enter, exit) times along one axis
calc_axis_rel(enter, exit, velocity) ==
    IF velocity = 0 THEN <<NEG_INFINITY, INFINITY>>
    ELSE <<F32Div(enter, velocity), F32Div(exit, velocity)>>

\* fn norm(v, vel)
norm(v, vel) == IF v # 0 THEN -signum(v) ELSE -signum(vel)

\* The normal sweep_test picks from the three entry times
sweep_normal_first_axis(enter, n) ==
    IF ~F32Lt(enter[1], enter[2]) /\ ~F32Lt(enter[1], enter[3]) THEN Vec3New(n[1], 0, 0)
    ELSE IF ~F32Lt(enter[2], enter[3]) THEN Vec3New(0, n[2], 0)
    ELSE Vec3New(0, 0, n[3])

sweep_normal(enter, n) ==
    IF F32Gt(enter[1], enter[2]) /\ F32Gt(enter[1], enter[3]) THEN Vec3New(n[1], 0, 0)
    ELSE IF F32Gt(enter[2], enter[1]) /\ F32Gt(enter[2], enter[3]) THEN Vec3New(0, n[2], 0)
    ELSE IF F32Gt(enter[3], enter[1]) /\ F32Gt(enter[3], enter[2]) THEN Vec3New(0, 0, n[3])
    ELSE IF F32Gt(enter[1], enter[3]) /\ F32Gt(enter[2], enter[3])
         THEN normalized(<<n[1], n[2], 0>>)
    ELSE IF F32Gt(enter[1], enter[2]) /\ F32Gt(enter[3], enter[2])
         THEN normalized(<<n[1], 0, n[3]>>)
    ELSE IF F32Gt(enter[2], enter[1]) /\ F32Gt(enter[3], enter[1])
         THEN normalized(<<0, n[2], n[3]>>)
    ELSE normalized(<<n[1], n[2], n[3]>>)

\* sweep_test(a, b)
sweep_test(a, b) ==
    LET abs(axis) == calc_axis_abs_aabb(a, b, a.velocity, axis)
        rel(axis) == calc_axis_rel(abs(axis)[1], abs(axis)[2], a.velocity[axis])
        enter == [axis \in 1..3 |-> rel(axis)[1]]
        exit == [axis \in 1..3 |-> rel(axis)[2]]
        entry_time == F32Max(F32Max(enter[1], enter[2]), enter[3])
        exit_time == F32Min(F32Min(exit[1], exit[2]), exit[3])
        n == [axis \in 1..3 |-> norm(abs(axis)[1], a.velocity[axis])]
    IN  IF \/ F32Gt(entry_time, exit_time)
           \/ (F32Lt(enter[1], F32Zero) /\ F32Lt(enter[2], F32Zero) /\ F32Lt(enter[3], F32Zero))
           \/ F32Gt(enter[1], F32One)
           \/ F32Gt(enter[2], F32One)
           \/ F32Gt(enter[3], F32One)
        THEN None
        ELSE Some(SweepTestResult(sweep_normal(enter, n), entry_time))

(***************************************************************************)
(* Calls of sweep_test.  A block is 10 long.  The moving box is a block at *)
(* the zero position or the player's box (PLAYER_SIZE = 0.2, 1.8, 0.2)     *)
(* standing in it; the static box is a block up to two blocks away on each *)
(* axis, the block of the moving box included.                             *)
(***************************************************************************)
Aabb(min, size) == [min |-> min, max |-> Vec3Add(min, size)]

Colliders == {Aabb(<<0, 0, 0>>, <<10, 10, 10>>), Aabb(<<4, 0, 4>>, <<2, 18, 2>>)}

\* 0.5, 1.2 and 1.3 blocks a frame as in test_sweep_test, and at rest
Speeds == {-12, 0, 5, 12, 13}

SweepBoxes ==
    {[collider |-> c, velocity |-> <<vx, vy, vz>>] :
        c \in Colliders, vx \in Speeds, vy \in Speeds, vz \in Speeds}

StaticBoxes ==
    {Aabb(<<x, y, z>>, <<10, 10, 10>>) :
        x \in {-20, -10, 0, 10, 20}, y \in {-20, -10, 0, 10, 20}, z \in {-20, 0, 20}}

\* Init draws the two boxes, SweepTest calls sweep_test on them.
InitSweep ==
    /\ world = WorldNew(Vec3Zero)
    /\ heap = HeapNew
    /\ snapshot = None
    /\ panicked = FALSE
    /\ last \in {[op |-> "input", a |-> a, b |-> b] : a \in SweepBoxes, b \in StaticBoxes}
    /\ calls = 0
    /\ InitLoader
    /\ game = None
    /\ ray = None
    /\ InitOther

SweepTest ==
    /\ last.op = "input"
    /\ last' = [op |-> "sweep_test", a |-> last.a, b |-> last.b,
                result |-> sweep_test(last.a, last.b)]
    /\ UNCHANGED <<world, heap, snapshot, panicked, calls, loaderVars, game, ray, otherVars>>

NextSweep == SweepTest

SpecSweep == InitSweep /\ [][NextSweep]_vars

(***************************************************************************)
(* raycast_generalized, raycast_candidates and raycast (world.rs).         *)
(*                                                                         *)
(* pos, dir and radius are whole tenths of a block; voxel_size is 1.0, as  *)
(* in both callers.  The rays drawn have pos on half blocks and dir        *)
(* components among 0, 0.4 and 1 with either sign, for which f32 computes  *)
(* t_delta (1 / 0.4 rounds to 2.5), dist and every t_max without rounding. *)
(* t_max[axis] is kept as the quotient <<dist + steps, |dir|>> like the    *)
(* times of sweep_test, +inf where dir is 0.  dir is never the zero        *)
(* vector, so dir.normalized() has magnitude 1 and the early return of     *)
(* line 183 is not taken.                                                  *)
(***************************************************************************)
RaycastOutput(position, normal) == [position |-> position, normal |-> normal]

\* pos.floor().map(|e| e as i32)
ray_floor(pos) == [i \in 1..3 |-> pos[i] \div 10]

\* dir.map(|e| e.signum() as i32)
ray_step(dir) == [i \in 1..3 |-> signum(dir[i])]

\* dist: from pos to the boundary of its voxel ahead on each axis
ray_dist(pos, dir) ==
    [i \in 1..3 |-> IF ray_step(dir)[i] > 0
                    THEN ray_floor(pos)[i] * 10 + 10 - pos[i]
                    ELSE pos[i] - ray_floor(pos)[i] * 10]

\* t_max at the start: t_delta * dist, or +inf
ray_t_max(pos, dir) ==
    [i \in 1..3 |-> IF dir[i] # 0 THEN <<ray_dist(pos, dir)[i], Abs(dir[i])>> ELSE INFINITY]

\* t_max[axis] += t_delta[axis]
ray_advance(t, dir, axis) ==
    IF dir[axis] # 0 THEN <<t[1] + 10, t[2]>> ELSE INFINITY

\* pos.distance(grid_pos.map(|e| e as f32)) <= radius
ray_within(pos, grid_pos, radius) ==
    (pos[1] - 10 * grid_pos[1]) * (pos[1] - 10 * grid_pos[1])
  + (pos[2] - 10 * grid_pos[2]) * (pos[2] - 10 * grid_pos[2])
  + (pos[3] - 10 * grid_pos[3]) * (pos[3] - 10 * grid_pos[3]) <= radius * radius

min_axis_latest(t_max) ==
    CHOOSE i \in 1..3 : \A j \in 1..3 : ~F32Lt(t_max[i], t_max[j])

\* min_by over the enumerated t_max: the first of the smallest
min_axis(t_max) ==
    CHOOSE i \in 1..3 :
        /\ \A j \in 1..3 : ~F32Lt(t_max[j], t_max[i])
        /\ \A j \in 1..(i - 1) : F32Lt(t_max[i], t_max[j])

hit_normal_along(dir, axis) == [i \in 1..3 |-> IF i = axis THEN signum(dir[i]) ELSE 0]

\* v[min_axis] = -dir[min_axis].signum() as i8
hit_normal(dir, axis) == [i \in 1..3 |-> IF i = axis THEN -signum(dir[i]) ELSE 0]

\* The closure raycast passes: Some(Block { id: 1.., .. }), any block other
\* than AIR (id 0)
has_voxel(blocks, grid_pos) ==
    /\ world_get_block(blocks, grid_pos) # None
    /\ unwrap(world_get_block(blocks, grid_pos)).ty # "Air"

(***************************************************************************)
(* A call of raycast_generalized, one step per iteration of its loop.      *)
(* ray.visited lists the calls of has_voxel: what raycast_candidates       *)
(* collects.                                                               *)
(***************************************************************************)
RayDone(r, output) == [r EXCEPT !.pc = "done", !.output = output]

\* Lines 186-212: up to the loop
RayStart ==
    /\ ray # None
    /\ ray.pc = "start"
    /\ LET ipos == ray_floor(ray.pos)
           r == [ray EXCEPT !.visited = <<ipos>>]
       IN  ray' = IF has_voxel(ray.blocks, ipos)
                  THEN RayDone(r, Some(RaycastOutput(ipos, Vec3Zero)))
                  ELSE [r EXCEPT !.pc = "loop", !.grid_pos = ipos,
                                 !.t_max = ray_t_max(ray.pos, ray.dir)]
    /\ UNCHANGED <<world, heap, snapshot, panicked, last, calls, loaderVars, game, otherVars>>

\* Lines 214-241: one test of the loop condition and one iteration
RayLoop ==
    /\ ray # None
    /\ ray.pc = "loop"
    /\ IF ~ray_within(ray.pos, ray.grid_pos, ray.radius)
       THEN ray' = RayDone(ray, None)
       ELSE LET axis == min_axis(ray.t_max)
                grid_pos == [ray.grid_pos EXCEPT ![axis] = @ + ray_step(ray.dir)[axis]]
                t_max == [ray.t_max EXCEPT ![axis] = ray_advance(@, ray.dir, axis)]
                r == [ray EXCEPT !.grid_pos = grid_pos, !.t_max = t_max]
            IN  ray' = IF ~ray_within(ray.pos, grid_pos, ray.radius)
                       THEN RayDone(r, None)
                       ELSE IF has_voxel(ray.blocks, grid_pos)
                            THEN RayDone([r EXCEPT !.visited = Append(@, grid_pos)],
                                         Some(RaycastOutput(grid_pos, hit_normal(ray.dir, axis))))
                            ELSE [r EXCEPT !.visited = Append(@, grid_pos)]
    /\ UNCHANGED <<world, heap, snapshot, panicked, last, calls, loaderVars, game, otherVars>>

\* The blocks of test_raycast2, and no block at all
TestBlocks ==
    [p \in {<<x, y, 0>> : x \in 7..11, y \in 7..10} |->
        IF p \in {<<9, 8, 0>>, <<9, 9, 0>>, <<9, 10, 0>>} THEN BlockNew("Test") ELSE AIR]

RayBlocks == {TestBlocks, [p \in {} |-> AIR]}

RayPositions == {<<80, 80, 0>>, <<75, 85, 5>>, <<80, 80, -5>>}

RayDirections ==
    {<<x, y, z>> : x \in {-10, 0, 4, 10}, y \in {-10, 0, 4, 10}, z \in {-10, 0, 4, 10}}
        \ {<<0, 0, 0>>}

\* 0.1, 4.0 and 16.0 as in the tests
RayRadii == {1, 40, 160}

InitRay ==
    /\ world = WorldNew(Vec3Zero)
    /\ heap = HeapNew
    /\ snapshot = None
    /\ panicked = FALSE
    /\ last = [op |-> "new"]
    /\ calls = 0
    /\ InitLoader
    /\ game = None
    /\ InitOther
    /\ ray \in {[pc |-> "start", pos |-> pos, dir |-> dir, radius |-> radius,
                 blocks |-> blocks, grid_pos |-> None, t_max |-> None,
                 visited |-> <<>>, output |-> None] :
                    pos \in RayPositions, dir \in RayDirections,
                    radius \in RayRadii, blocks \in RayBlocks}

NextRay == RayStart \/ RayLoop

SpecRay == InitRay /\ [][NextRay]_vars

\* The call runs to its end.
SpecRayFair == SpecRay /\ WF_vars(NextRay)

(***************************************************************************)
(* Properties of the World (SpecEdit, SpecWindow).                         *)
(***************************************************************************)
\* The window in plain arithmetic: a chunk coordinate is inside when its
\* offset from the origin is within the extents on every axis.
InWindow(origin, chunk_coord) ==
    \A i \in 1..3 : Abs(chunk_coord[i] - origin[i]) <= extents[i]

\* The chunk a World holds for a chunk coordinate, None when it holds none.
LoadedAt(w, chunk_coord) ==
    IF InWindow(w.origin, chunk_coord)
    THEN w.chunks[[i \in 1..3 |-> chunk_coord[i] - w.origin[i] + extents[i]]]
    ELSE None

\* The chunk coordinates the properties range over.
CoordUniverse ==
    {<<a, b, c>> : a \in -2..3, b \in -1..2, c \in -4..1}

\* C1: for every world coordinate p (negative ones included) whose chunk is
\* loaded, set_block(p, b) succeeds and get_block(p) then returns Some(b); the
\* block sits in the slot (chunk(p) - origin) + extents, at the local cell
\* p mod 16 (Euclidean remainder).
C1_WriteThenRead ==
    (last.op = "set_block" /\ last.loaded) =>
        /\ last.ret = "ok"
        /\ get_block(world, heap, last.position) = Some(last.block)
        /\ LET chunk == LoadedAt(world, [i \in 1..3 |-> last.position[i] \div CHUNK_SIZE])
               cell == [i \in 1..3 |-> last.position[i] % CHUNK_SIZE]
           IN  /\ chunk # None
               /\ GridGet(heap[unwrap(chunk).blocks], cell) = Some(last.block)

\* C1 witness: a block other than the fill was written at a position with a
\* negative coordinate and is read back.
C1_Witness ==
    /\ last.op = "set_block"
    /\ last.loaded
    /\ last.block = GRASS
    /\ \E i \in 1..3 : last.position[i] < 0
    /\ get_block(world, heap, last.position) = Some(GRASS)

\* C2 (as claimed): chunk_to_index is None for every chunk coordinate outside
\* origin +- extents, on the negative side as on the positive side, and
\* Some((chunk_coord - origin) + extents) with components in 0..2*extent for
\* every coordinate inside.
C2_IndexOrNone ==
    \A c \in CoordUniverse :
        IF InWindow(world.origin, c)
        THEN /\ chunk_to_index(world.origin, c)
                    = Some([i \in 1..3 |-> c[i] - world.origin[i] + extents[i]])
             /\ \A i \in 1..3 :
                    unwrap(chunk_to_index(world.origin, c))[i] \in 0..(2 * extents[i])
        ELSE chunk_to_index(world.origin, c) = None

\* C3 (as claimed): set_block on a coordinate whose chunk is not loaded returns
\* ChunkNotLoaded, does not panic and leaves the World unchanged.
C3_ChunkNotLoaded ==
    (last.op = "set_block" /\ ~last.loaded) =>
        /\ last.ret = "ChunkNotLoaded"
        /\ ~panicked
        /\ world = last.before

\* C4: set_origin keeps exactly the chunks whose coordinate is inside the new
\* window, each at the index (c - new_origin) + extents and with the same
\* chunk; every other coordinate is unloaded afterwards, and no coordinate
\* that was unloaded becomes loaded.
C4_SetOriginMembership ==
    last.op = "set_origin" =>
        /\ world.origin = last.origin
        /\ \A c \in CoordUniverse :
              LoadedAt(world, c) =
                  IF InWindow(last.origin, c) THEN LoadedAt(last.before, c) ELSE None

\* C4 witness: a re-centering that kept a chunk at another index, dropped a
\* chunk and left a slot empty.
C4_Witness ==
    /\ last.op = "set_origin"
    /\ last.origin # last.before.origin
    /\ \E c \in CoordUniverse :
          /\ LoadedAt(world, c) # None
          /\ LoadedAt(world, c) = LoadedAt(last.before, c)
    /\ \E c \in CoordUniverse :
          LoadedAt(last.before, c) # None /\ LoadedAt(world, c) = None
    /\ \E index \in Indices : world.chunks[index] = None

\* C5: loading the chunk generated for the same coordinate at the same
\* coordinate a second time leaves the World (origin and every slot, by
\* value) as the first load left it.
C5_LoadIdempotent ==
    (last.op = "load" /\ last.repeat) =>
        WorldValue(world, heap) = WorldValue(last.before, heap)

\* C5 witness: the same load made twice in a row, into a slot of the window
\* whose chunk the first load replaced by the generated one.
C5_Witness ==
    /\ last.op = "load"
    /\ last.repeat
    /\ InWindow(world.origin, last.chunk_coord)
    /\ LoadedAt(world, last.chunk_coord) # LoadedAt(last.before, last.chunk_coord)
    /\ heap[unwrap(LoadedAt(world, last.chunk_coord)).blocks] = GeneratedGrid(last.gen)
    /\ GeneratedGrid(last.gen) # DefaultGrid

\* C6: load and unload for a chunk coordinate outside origin +- extents leave
\* the World unchanged and do not panic.
C6_OutsideWindowNoOp ==
    (last.op \in {"load", "unload"} /\ ~InWindow(last.before.origin, last.chunk_coord)) =>
        /\ world = last.before
        /\ ~panicked

\* C6 witness: after a re-centering, a chunk generated for a coordinate of
\* the first window is loaded when that coordinate lies below the new window,
\* where chunk_to_index still gives an index (outside the array).
C6_Witness ==
    /\ last.op = "load"
    /\ last.before.origin # Vec3Zero
    /\ InWindow(Vec3Zero, last.chunk_coord)
    /\ ~InWindow(last.before.origin, last.chunk_coord)
    /\ chunk_to_index(last.before.origin, last.chunk_coord) # None
    /\ last.gen = last.chunk_coord
    /\ world = last.before

\* C7: edits are copy-on-write.  No step changes a block of a grid that is
\* already allocated, so whoever holds a handle reads the same blocks after
\* an edit as before it; the World clone a reader holds reads the same blocks
\* at every position; and a successful set_block publishes the edited grid
\* under a handle nobody held before.
C7_CopyOnWrite ==
    [][/\ \A h \in DOMAIN heap : h \in DOMAIN heap' /\ heap'[h] = heap[h]
       /\ (snapshot # None /\ snapshot' = snapshot) =>
              \A p \in Positions :
                  get_block(unwrap(snapshot), heap', p) = get_block(unwrap(snapshot), heap, p)
       /\ (last'.op = "set_block" /\ last'.ret = "ok" /\ calls' = calls + 1) =>
              LET slot == unwrap(chunk_at_mut(world', last'.position))
              IN  /\ unwrap(world'.chunks[slot]).blocks \notin DOMAIN heap
                  /\ \A index \in Indices \ {slot} : world'.chunks[index] = world.chunks[index]
      ]_vars

\* C7 witness: after an edit the reader's clone still reads the old block
\* where the live World reads the new one.
C7_Witness ==
    /\ snapshot # None
    /\ last.op = "set_block"
    /\ last.ret = "ok"
    /\ get_block(world, heap, last.position) = Some(GRASS)
    /\ get_block(unwrap(snapshot), heap, last.position) = Some(AIR)

(***************************************************************************)
(* Properties of the ChunkLoader (SpecLoader, SpecLoaderFair).             *)
(***************************************************************************)
\* The requests a sequence of messages carries.
RECURSIVE Ids(_)
Ids(q) == IF q = <<>> THEN <<>> ELSE <<Head(q).id>> \o Ids(Tail(q))

RECURSIVE HeldBy(_)
HeldBy(ws) ==
    IF ws = {} THEN <<>>
    ELSE LET w == CHOOSE x \in ws : TRUE
         IN  (IF thread[w] = None THEN <<>> ELSE <<unwrap(thread[w]).id>>) \o HeldBy(ws \ {w})

\* Where every request is: waiting on the request channel, held by a worker,
\* waiting on the result channel, or returned by receive.
Whereabouts == Ids(tx) \o HeldBy(Workers) \o Ids(rx) \o received

Busy == \E w \in Workers : thread[w] # None

\* C8: receive never waits.  In every state, whatever the workers are doing,
\* the polling step can be taken at once; with no result ready it returns
\* None, and it returns Some exactly when a result was ready.
C8_ReceiveNeverWaits ==
    /\ ~panicked => ENABLED Receive
    /\ last.op = "receive" => (last.ret = None <=> ~last.ready)

\* C8 witness: receive returned None while a worker was still generating and
\* another request was still waiting.
C8_Witness ==
    /\ last.op = "receive"
    /\ last.ret = None
    /\ rx = <<>>
    /\ Busy
    /\ tx # <<>>

\* C9: every request is in exactly one place (no request lost, none
\* duplicated, none invented), a result carries the requested coordinate and
\* the chunk generated for it, and under worker fairness every request that
\* waits or is being generated is followed by a state where none is: by then
\* its result is on the result channel or has been returned by receive.
C9_Conservation ==
    /\ Len(Whereabouts) = Len(requested)
    /\ \A i \in 1..Len(requested) : \E k \in 1..Len(Whereabouts) : Whereabouts[k] = i
    /\ \A k \in 1..Len(rx) :
          /\ rx[k].chunk_coord = requested[rx[k].id]
          /\ heap[rx[k].chunk.blocks] = GeneratedGrid(rx[k].chunk_coord)
    /\ \A w \in Workers :
          thread[w] # None => unwrap(thread[w]).chunk_coord = requested[unwrap(thread[w]).id]

C9_ExactlyOneResult ==
    /\ []C9_Conservation
    /\ (tx # <<>> \/ Busy) ~> (tx = <<>> /\ ~Busy)

\* C9 witness: a coordinate was requested twice, every request made has been
\* answered, and two results came back in the opposite order of their
\* requests (two workers were generating at the same time).
C9_Witness ==
    /\ Len(requested) = MaxRequests
    /\ \E i, j \in 1..Len(requested) : i # j /\ requested[i] = requested[j]
    /\ Len(received) = MaxRequests
    /\ \E k \in 1..(Len(received) - 1) : received[k] > received[k + 1]

\* Nothing is in flight: no request waits, no worker generates, no result
\* waits.
Quiescent == tx = <<>> /\ ~Busy /\ rx = <<>>

Requested(chunk_coord) == \E i \in 1..Len(requested) : requested[i] = chunk_coord

\* C10: once every result has been received and loaded, the World depends
\* only on the set of requested coordinates: each slot whose coordinate was
\* requested holds the chunk generated for it, every other slot what it held
\* before, whatever the interleaving, the arrival order and the duplicates.
C10_FinalWorld ==
    Quiescent =>
        WorldValue(world, heap) =
            [origin |-> Vec3Zero,
             chunks |-> [index \in Indices |->
                            LET c == [i \in 1..3 |-> index[i] - extents[i]]
                            IN  IF Requested(c) THEN Some(GeneratedGrid(c))
                                ELSE Some(DefaultGrid)]]

\* C10 witness: all results are loaded, a coordinate was requested twice,
\* and the results did not arrive in request order.
C10_Witness ==
    /\ Quiescent
    /\ Len(received) = MaxRequests
    /\ \E i, j \in 1..Len(requested) : i # j /\ requested[i] = requested[j]
    /\ \E i, j \in 1..Len(requested) :
          requested[i] # requested[j] /\ InWindow(world.origin, requested[i])
    /\ \E k \in 1..(Len(received) - 1) : received[k] > received[k + 1]

(***************************************************************************)
(* Properties of the lighting engine (SpecLight, SpecDrain).               *)
(***************************************************************************)
\* The dirty queue of a Game has drained
Drained(g) == g.dirty_blocks = <<>>

\* The variants of BlockType
BlockTypes == {"Air", "Test", "Grass", "Lantern", "Mesh", "Wood", "Stone"}

\* The positions one step away from p along one axis
Around(p) ==
    {<<p[1] + d, p[2], p[3]>> : d \in {-1, 1}} \cup
    {<<p[1], p[2] + d, p[3]>> : d \in {-1, 1}} \cup
    {<<p[1], p[2], p[3] + d>> : d \in {-1, 1}}

Highest(lights) == CHOOSE l \in lights : \A m \in lights : m <= l

\* The rule in its priority order: sky light, then emission, then the
\* brightest loaded neighbor less 16, then darkness.
LightRule(blocks, position, block) ==
    IF block.ty \in {"Air", "Mesh"} /\ block.open_to_sky THEN 255
    ELSE IF block.ty = "Lantern" THEN 224
    ELSE IF block.ty \in {"Air", "Mesh"}
         THEN LET lights == {blocks[q].light : q \in Around(position) \cap DOMAIN blocks}
              IN  IF lights = {} THEN 0
                  ELSE IF Highest(lights) >= 16 THEN Highest(lights) - 16 ELSE 0
    ELSE 0

\* C11: for every loaded position, every block type, either sky flag and
\* either source update_blocks passes (None, or the target itself),
\* calculate_block_light returns what the rule gives in its priority order:
\* 255 for a light-passing block open to the sky, else the emission of an
\* emitting type (224 for Lantern), else for a light-passing type the
\* maximum over the loaded face neighbors of their light less 16, floored at
\* 0 and 0 without a loaded neighbor, else 0.
C11_LightRule ==
    game # None =>
        \A position \in DOMAIN game.blocks : \A ty \in BlockTypes : \A sky \in BOOLEAN :
            \A source \in {None, Some(position)} :
                LET block == [game.blocks[position] EXCEPT !.ty = ty, !.open_to_sky = sky]
                IN  calculate_block_light(game.blocks, position, block, source)
                        = LightRule(game.blocks, position, block)

\* A drained world showing all four cases: a lantern at 224, a dark block
\* next to it at 208, a block under a hole in the roof at 255, stone at 0.
C11_Witness ==
    /\ game # None
    /\ Drained(game)
    /\ <<0, 1, 0>> \in DOMAIN game.blocks
    /\ game.blocks[<<1, 1, 0>>].ty = "Lantern" /\ game.blocks[<<1, 1, 0>>].light = 224
    /\ ~game.blocks[<<0, 1, 0>>].open_to_sky /\ game.blocks[<<0, 1, 0>>].light = 208
    /\ game.blocks[<<2, 2, 0>>].ty = "Air" /\ game.blocks[<<2, 2, 0>>].light = 255
    /\ game.blocks[<<3, 2, 0>>].ty = "Stone" /\ game.blocks[<<3, 2, 0>>].light = 0

\* C12: whenever the dirty queue is not empty it becomes empty after
\* finitely many ticks, and a tick on an empty queue changes no block and
\* leaves the queue empty.
C12_Terminates ==
    /\ (~Drained(game)) ~> Drained(game)
    /\ [][(Drained(game) /\ last' = last) =>
              (game'.blocks = game.blocks /\ Drained(game'))]_vars

\* A tick has stopped at the cap and left updates in the queue.
C12_Witness ==
    /\ game # None
    /\ ~Drained(game)
    /\ game.block_update_count >= MAX_UPDATES_COUNT

\* The light-passing blocks that a path of at most d steps through
\* light-passing blocks reaches from e: layer d + 1 of the sequence.
RECURSIVE PathLayers(_, _, _)
PathLayers(blocks, e, d) ==
    IF d = 0 THEN << {e} >>
    ELSE LET layers == PathLayers(blocks, e, d - 1)
             reached == layers[d]
         IN  Append(layers,
                    reached \cup {q \in UNION {Around(r) : r \in reached} :
                                     /\ q \in DOMAIN blocks
                                     /\ light_passing(blocks[q].ty)})

\* Every light-passing block is dark and closed to the sky, nothing emits
DarkRegion(blocks) ==
    \A p \in DOMAIN blocks :
        /\ light_emission(blocks[p].ty) = None
        /\ light_passing(blocks[p].ty) => (blocks[p].light = 0 /\ ~blocks[p].open_to_sky)

\* C13: when a lantern has been placed in a dark region closed to the sky and
\* the queue has drained, a light-passing block whose shortest path from the
\* lantern through light-passing blocks has d steps holds 224 - 16 * d, and 0
\* from 14 steps on.
C13_Attenuated ==
    ( /\ game # None
      /\ last.op = "set_block"
      /\ last.block = LANTERN
      /\ last.position \in DOMAIN game.blocks
      /\ Drained(last.before) /\ DarkRegion(last.before.blocks)
      /\ Drained(game) )
    => \A layers \in {PathLayers(game.blocks, last.position, 14)} :
          \A q \in DOMAIN game.blocks :
              light_passing(game.blocks[q].ty) =>
                  LET ds == {d \in 1..14 : q \in layers[d + 1]}
                  IN  game.blocks[q].light =
                          IF ds = {} THEN 0
                          ELSE 224 - 16 * (CHOOSE d \in ds : \A c \in ds : d <= c)

\* A lantern lit behind a stone: the block across the stone is four steps
\* away, the far end of the cave is dark.
C13_Witness ==
    /\ game # None
    /\ last.op = "set_block" /\ last.block = LANTERN
    /\ Drained(last.before) /\ DarkRegion(last.before.blocks)
    /\ Drained(game)
    /\ <<15, 1, 0>> \in DOMAIN game.blocks
    /\ game.blocks[<<2, 1, 0>>].ty = "Stone"
    /\ game.blocks[<<3, 1, 0>>].light = 160
    /\ game.blocks[<<15, 0, 0>>].light = 0

\* The loaded blocks above p in its column
Above(blocks, p) == {q \in DOMAIN blocks : q[1] = p[1] /\ q[3] = p[3] /\ q[2] > p[2]}

\* C14: once the queue has drained, a light-passing block with only
\* light-passing blocks above it up to the world ceiling is open to the sky,
\* and a block with an opaque block anywhere above it in its column is not.
C14_SkyExposure ==
    (game # None /\ Drained(game)) =>
        \A p \in DOMAIN game.blocks :
            /\ ( /\ light_passing(game.blocks[p].ty)
                 /\ \A q \in Above(game.blocks, p) : light_passing(game.blocks[q].ty) )
               => game.blocks[p].open_to_sky
            /\ (\E q \in Above(game.blocks, p) : ~light_passing(game.blocks[q].ty))
               => ~game.blocks[p].open_to_sky

\* Stone placed at the top of an open column: both blocks below it were open
\* to the sky and no longer are.
C14_Witness ==
    /\ game # None
    /\ Drained(game)
    /\ last.op = "set_block" /\ last.block = STONE /\ last.position = <<2, 2, 0>>
    /\ \A y \in 0..2 : /\ last.before.blocks[<<2, y, 0>>].ty = "Air"
                       /\ last.before.blocks[<<2, y, 0>>].open_to_sky
    /\ \A y \in 0..1 : ~game.blocks[<<2, y, 0>>].open_to_sky

\* C15: when an air block was set to another type, the queue drained, the
\* block was set back to air and the queue drained again, the block is what
\* it was before the two edits and every block holds the light it held
\* before them.
C15_EditThenUndo ==
    ( /\ game # None
      /\ last.op = "set_block" /\ last.block = AIR
      /\ last.prev # None
      /\ unwrap(last.prev).position = last.position
      /\ unwrap(last.prev).block.ty # "Air"
      /\ last.position \in DOMAIN game.blocks
      /\ unwrap(last.prev).before.blocks[last.position].ty = "Air"
      /\ Drained(unwrap(last.prev).before)
      /\ Drained(last.before)
      /\ Drained(game) )
    => LET original == unwrap(last.prev).before.blocks
       IN  /\ game.blocks[last.position] = original[last.position]
           /\ \A q \in DOMAIN game.blocks : game.blocks[q].light = original[q].light

\* A lantern lit in the cave and destroyed again: the cave was dark, was lit,
\* and is dark.
C15_Witness ==
    /\ game # None
    /\ Drained(game)
    /\ last.op = "set_block" /\ last.block = AIR /\ last.position = <<1, 1, 0>>
    /\ last.prev # None
    /\ unwrap(last.prev).position = <<1, 1, 0>> /\ unwrap(last.prev).block = LANTERN
    /\ unwrap(last.prev).before.blocks[<<0, 1, 0>>].light = 0
    /\ last.before.blocks[<<0, 1, 0>>].light = 208
    /\ game.blocks[<<0, 1, 0>>].light = 0

\* C16: at the end of a tick block_update_count, the number of updates the
\* tick has processed, is at most MAX_UPDATES_COUNT.
C16_AtMostCap ==
    game # None => game.block_update_count <= MAX_UPDATES_COUNT

(***************************************************************************)
(* Properties of sweep_test (SpecSweep).                                   *)
(***************************************************************************)
\* The axes along which the box moves
Moving(a) == {i \in 1..3 : a.velocity[i] # 0}

F32Le(p, q) == ~F32Lt(q, p)

InFrame(t) == F32Le(F32Zero, t) /\ F32Le(t, F32One)

\* At time t = n / d of the frame the moving box, displaced by t times its
\* velocity, and the static box share a point of axis i.
OverlapAt(a, b, i, t) ==
    /\ a.collider.min[i] * t[2] + a.velocity[i] * t[1] <= b.max[i] * t[2]
    /\ b.min[i] * t[2] <= a.collider.max[i] * t[2] + a.velocity[i] * t[1]

\* The times at which a face of the moving box meets a face of the static
\* box on axis i: where the overlap on that axis begins and ends
FaceTimes(a, b, i) ==
    {F32Div(b.min[i] - a.collider.max[i], a.velocity[i]),
     F32Div(b.max[i] - a.collider.min[i], a.velocity[i])}

\* The earliest of a non-empty set of times
Earliest(times) == CHOOSE t \in times : \A u \in times : F32Le(t, u)

\* The times of the frame at which an overlap can begin, with those at
\* which the boxes overlap on every axis
FrameHits(a, b) ==
    {t \in {F32Zero, F32One} \cup UNION {FaceTimes(a, b, i) : i \in Moving(a)} :
        InFrame(t) /\ \A i \in 1..3 : OverlapAt(a, b, i, t)}

\* The face times at which the boxes overlap on every axis of movement
MovingHits(a, b) ==
    {t \in UNION {FaceTimes(a, b, i) : i \in Moving(a)} :
        \A i \in Moving(a) : OverlapAt(a, b, i, t)}

SameTime(t, u) == t[1] * u[2] = u[1] * t[2]

\* C17: as claimed: sweep_test returns Some exactly when the displaced box
\* overlaps the static box at some time of the frame, with time the earliest
\* such time, and None when they overlap at no time of the frame.
C17_OverlapInFrame ==
    last.op = "sweep_test" =>
        /\ last.result # None <=> FrameHits(last.a, last.b) # {}
        /\ last.result # None =>
              SameTime(unwrap(last.result).time, Earliest(FrameHits(last.a, last.b)))

\* C17, amended: sweep_test returns Some exactly when the box moves and, on
\* the axes along which it moves, the boxes first touch at a time within
\* [0, 1]; time is that time.  Axes of zero velocity are not tested, and
\* boxes that overlap on the axes of movement before time 0 give None.
C17_ContactOnMovingAxes ==
    last.op = "sweep_test" =>
        LET hits == MovingHits(last.a, last.b)
            contact == hits # {} /\ InFrame(Earliest(hits))
        IN  /\ last.result # None <=> contact
            /\ last.result # None =>
                  /\ InFrame(unwrap(last.result).time)
                  /\ SameTime(unwrap(last.result).time, Earliest(hits))

\* The literal case of test_sweep_test: a block at the zero position moving
\* 1.2 along x against the block at (2, 2, 0), which it never overlaps,
\* gives the normal (-1, 0, 0) at time 5/6.
C17_Witness ==
    /\ last.op = "sweep_test"
    /\ last.a = [collider |-> Aabb(<<0, 0, 0>>, <<10, 10, 10>>), velocity |-> <<12, 0, 0>>]
    /\ last.b = Aabb(<<20, 20, 0>>, <<10, 10, 10>>)
    /\ last.result # None
    /\ SameTime(unwrap(last.result).time, <<5, 6>>)
    /\ unwrap(last.result).normal = Vec3New(-1, 0, 0)

\* The time at which the overlap on axis i begins: the earlier of its two
\* face times, -inf on an axis of zero velocity
AxisEntry(a, b, i) ==
    IF a.velocity[i] = 0 THEN NEG_INFINITY ELSE Earliest(FaceTimes(a, b, i))

\* The axes whose entry time is the latest
LatestAxes(a, b) ==
    {i \in 1..3 : \A j \in 1..3 : F32Le(AxisEntry(a, b, j), AxisEntry(a, b, i))}

\* C18: when sweep_test reports a collision the normal is non-zero exactly
\* on the axes whose entry time is the latest, its sign on each opposing the
\* velocity there, and it is divided by its magnitude: a unit axis vector
\* for one latest axis, the normalized diagonal over the tied axes for two
\* or three.
C18_NormalOnLatestAxes ==
    (last.op = "sweep_test" /\ last.result # None) =>
        LET normal == unwrap(last.result).normal
            latest == LatestAxes(last.a, last.b)
        IN  /\ \A i \in 1..3 :
                  normal.v[i] = IF i \in latest THEN -signum(last.a.velocity[i]) ELSE 0
            /\ normal.magnitude_squared = Cardinality(latest)

\* The tie of test_sweep_test: moving 1.2 along x and y against the block at
\* (2, 2, 0) gives (-1, -1, 0) over the square root of 2.
C18_Witness ==
    /\ last.op = "sweep_test"
    /\ last.a = [collider |-> Aabb(<<0, 0, 0>>, <<10, 10, 10>>), velocity |-> <<12, 12, 0>>]
    /\ last.b = Aabb(<<20, 20, 0>>, <<10, 10, 10>>)
    /\ last.result # None
    /\ unwrap(last.result).normal = [v |-> <<-1, -1, 0>>, magnitude_squared |-> 2]

(***************************************************************************)
(* Properties of raycast (SpecRay, SpecRayFair).                           *)
(***************************************************************************)
\* Voxel p holds a block that is not air
Solid(blocks, p) == p \in DOMAIN blocks /\ blocks[p].ty # "Air"

\* The axes on which two voxels differ
Differing(p, q) == {i \in 1..3 : p[i] # q[i]}

Sign(n) == IF n > 0 THEN 1 ELSE IF n < 0 THEN -1 ELSE 0

\* C19: when the call has returned, with no solid voxel among those visited
\* the result is None; otherwise it is the first solid voxel visited, with a
\* zero normal when that is the starting voxel and else with the unit normal
\* -sign(dir) on the axis of the step that entered it.
C19_FirstSolidVoxel ==
    (ray # None /\ ray.pc = "done") =>
        LET hits == {k \in 1..Len(ray.visited) : Solid(ray.blocks, ray.visited[k])}
            first == CHOOSE k \in hits : \A h \in hits : k <= h
        IN  IF hits = {} THEN ray.output = None
            ELSE /\ ray.output # None
                 /\ unwrap(ray.output).position = ray.visited[first]
                 /\ first = 1 => unwrap(ray.output).normal = <<0, 0, 0>>
                 /\ first > 1 =>
                       \E axis \in 1..3 :
                           /\ Differing(ray.visited[first - 1], ray.visited[first]) = {axis}
                           /\ unwrap(ray.output).normal =
                                  [i \in 1..3 |-> IF i = axis THEN -Sign(ray.dir[i]) ELSE 0]

\* The literal case of test_raycast2: from (8, 8, 0) along (1, 0.4, 0) with
\* radius 16 the voxel (9, 8, 0) is hit through its -x face.
C19_Witness ==
    /\ ray # None
    /\ ray.pc = "done"
    /\ ray.pos = <<80, 80, 0>> /\ ray.dir = <<10, 4, 0>> /\ ray.radius = 160
    /\ ray.blocks = TestBlocks
    /\ ray.output = Some(RaycastOutput(<<9, 8, 0>>, <<-1, 0, 0>>))

\* The parameter at which the ray leaves voxel p along axis i, +inf when it
\* does not move along i
Crossing(pos, dir, p, i) ==
    IF dir[i] = 0 THEN INFINITY
    ELSE F32Div((IF dir[i] > 0 THEN 10 * (p[i] + 1) ELSE 10 * p[i]) - pos[i], dir[i])

\* The axes along which the ray leaves voxel p first
NearestAxes(pos, dir, p) ==
    {i \in 1..3 : \A j \in 1..3 : F32Le(Crossing(pos, dir, p, i), Crossing(pos, dir, p, j))}

\* C20: the first voxel visited is floor(pos); each next one is one step in
\* the sign of dir from the previous one along one axis, an axis along which
\* the ray leaves the previous voxel first, and lies within the radius of
\* pos; and the call returns.
C20_OneCellAtATime ==
    /\ [](ray # None =>
            /\ ray.visited # <<>> =>
                  \A i \in 1..3 : /\ 10 * ray.visited[1][i] <= ray.pos[i]
                                  /\ ray.pos[i] < 10 * ray.visited[1][i] + 10
            /\ \A k \in 2..Len(ray.visited) :
                  /\ \E axis \in NearestAxes(ray.pos, ray.dir, ray.visited[k - 1]) :
                        ray.visited[k] =
                            [ray.visited[k - 1] EXCEPT ![axis] = @ + Sign(ray.dir[axis])]
                  /\ ray_within(ray.pos, ray.visited[k], ray.radius))
    /\ <>(ray # None /\ ray.pc = "done")

\* The first case of test_raycast_candidates: from (8, 8, 0) along
\* (1, 0.4, 0) with radius 4 five voxels are visited, stepping along x, x, y
\* and x.
C20_Witness ==
    /\ ray # None
    /\ ray.pc = "done"
    /\ ray.pos = <<80, 80, 0>> /\ ray.dir = <<10, 4, 0>> /\ ray.radius = 40
    /\ ray.visited = << <<8, 8, 0>>, <<9, 8, 0>>, <<10, 8, 0>>, <<10, 9, 0>>, <<11, 9, 0>> >>
    /\ ray.output = None

(***************************************************************************)
(* ButtonBuffer (input.rs): take-latest buffering of press and release     *)
(* events, per key.  The map holds for a key one event or two; a key       *)
(* without an entry holds None here.  An event carries, besides the key    *)
(* and state the buffer looks at, an id that tells two events of the same  *)
(* key and state apart (the buffer is generic in the event type).          *)
(***************************************************************************)
MaxEvents == 4

\* ButtonStateEvent
ButtonStateEvent == {"Press", "Release"}

\* The keys of test_key_buffer
Keycode == {"A", "B"}

\* An event E: ButtonEvent, with its key() and state()
ButtonEvent(key, state, id) == [key |-> key, state |-> state, id |-> id]

\* ButtonBuffer::new
ButtonBufferNew == [key \in Keycode |-> None]

\* ButtonBuffer::push
push_drop_newest(self, event) ==
    LET current == self[event.key]
    IN  [self EXCEPT ![event.key] =
            IF current # None
            THEN LET latest == IF current[1][2] # None THEN current[1][2][1] ELSE current[1][1]
                 IN  IF latest.state = event.state
                     THEN current
                     ELSE Some(<<current[1][1], Some(event)>>)
            ELSE Some(<<event, None>>)]
push(self, event) ==
    LET current == self[event.key]
    IN  [self EXCEPT ![event.key] =
            IF current # None
            THEN LET latest == IF current[1][2] # None THEN current[1][2][1] ELSE current[1][1]
                 IN  IF latest.state = event.state
                     THEN current
                     ELSE IF current[1][2] # None
                          THEN Some(<<current[1][2][1], Some(event)>>)
                          ELSE Some(<<current[1][1], Some(event)>>)
            ELSE Some(<<event, None>>)]

\* ButtonBuffer::pull: the buffer after the call and the value returned
pull(self, key) ==
    LET current == self[key]
    IN  IF current = None
        THEN [buffer |-> self, result |-> None]
        ELSE [buffer |-> IF current[1][2] # None
                         THEN [self EXCEPT ![key] = Some(<<current[1][2][1], None>>)]
                         ELSE [self EXCEPT ![key] = None],
              result |-> Some(current[1][1])]

InitBuffer ==
    /\ buffer = ButtonBufferNew
    /\ InitTick
    /\ look_back = None
    /\ hotbar = None
    /\ drain = None
    /\ game = None
    /\ ray = None
    /\ world = WorldNew(Vec3Zero)
    /\ heap = HeapNew
    /\ snapshot = None
    /\ panicked = FALSE
    /\ last = [op |-> "new"]
    /\ calls = 0
    /\ InitLoader

Push ==
    /\ calls < MaxEvents
    /\ \E key \in Keycode, state \in ButtonStateEvent :
          LET event == ButtonEvent(key, state, calls)
          IN  /\ buffer' = push(buffer, event)
              /\ last' = [op |-> "push", event |-> event, before |-> buffer]
    /\ calls' = calls + 1
    /\ UNCHANGED <<world, heap, snapshot, panicked, loaderVars, game, ray,
                   look_back, hotbar, drain, input, camera, motion, chunk_loader>>

Pull ==
    /\ calls < MaxEvents
    /\ \E key \in Keycode :
          /\ buffer' = pull(buffer, key).buffer
          /\ last' = [op |-> "pull", key |-> key, result |-> pull(buffer, key).result,
                      before |-> buffer]
    /\ calls' = calls + 1
    /\ UNCHANGED <<world, heap, snapshot, panicked, loaderVars, game, ray,
                   look_back, hotbar, drain, input, camera, motion, chunk_loader>>

NextBuffer == Push \/ Pull

SpecBuffer == InitBuffer /\ [][NextBuffer]_vars

\* The events a buffer holds for a key, oldest first
Held(self, key) ==
    IF self[key] = None THEN <<>>
    ELSE IF self[key][1][2] = None THEN <<self[key][1][1]>>
    ELSE <<self[key][1][1], self[key][1][2][1]>>

\* Take-latest, as a rule on the events held
TakeLatest(held, event) ==
    IF held # <<>> /\ held[Len(held)].state = event.state THEN held
    ELSE IF Len(held) = 2 THEN <<held[2], event>>
    ELSE Append(held, event)

\* C21: a pushed event of the state of the latest event held for its key is
\* ignored, one of a different state is appended and evicts the oldest when
\* two are held; a key holds one or two events, two of different states;
\* pull returns the events held oldest first and None when there is none;
\* pushes and pulls of one key leave the other keys as they were.
C21_TakeLatest ==
    /\ \A key \in Keycode :
          /\ Len(Held(buffer, key)) = 2 =>
                Held(buffer, key)[1].state # Held(buffer, key)[2].state
          /\ \A i \in 1..Len(Held(buffer, key)) : Held(buffer, key)[i].key = key
    /\ last.op = "push" =>
          /\ Held(buffer, last.event.key) =
                TakeLatest(Held(last.before, last.event.key), last.event)
          /\ \A key \in Keycode \ {last.event.key} : buffer[key] = last.before[key]
    /\ last.op = "pull" =>
          /\ last.result = IF Held(last.before, last.key) = <<>> THEN None
                           ELSE Some(Held(last.before, last.key)[1])
          /\ Held(buffer, last.key) = IF Held(last.before, last.key) = <<>> THEN <<>>
                                      ELSE Tail(Held(last.before, last.key))
          /\ \A key \in Keycode \ {last.key} : buffer[key] = last.before[key]

\* Up Down Up -> Down Up: a third event of a new state has evicted the oldest.
C21_Witness ==
    /\ last.op = "push"
    /\ Len(Held(last.before, last.event.key)) = 2
    /\ Held(buffer, last.event.key) = <<Held(last.before, last.event.key)[2], last.event>>

(***************************************************************************)
(* Blend (lib.rs): interpolation between two ticks.  A value is a record   *)
(* of its type and its contents; an f32 is an exact quotient <<num, den>>. *)
(* The alphas are whole eighths and the f32 values small integers, which   *)
(* f32 multiplies and adds exactly.                                        *)
(***************************************************************************)
F32Mul(p, q) == <<p[1] * q[1], p[2] * q[2]>>
F32Add(p, q) == <<p[1] * q[2] + q[1] * p[2], p[2] * q[2]>>
F32Sub(p, q) == <<p[1] * q[2] - q[1] * p[2], p[2] * q[2]>>

\* 0.5
F32Half == <<1, 2>>

\* impl Blend for f32
f32_blend(self, other, alpha) ==
    F32Add(F32Mul(self, F32Sub(F32One, alpha)), F32Mul(other, alpha))

\* impl<T: DiscreteBlend + Clone> Blend for T
discrete_blend_upto_midpoint(self, other, alpha) ==
    IF F32Le(alpha, F32Half) THEN self ELSE other
discrete_blend(self, other, alpha) ==
    IF F32Lt(alpha, F32Half) THEN self ELSE other

\* The types with an impl DiscreteBlend
DiscreteBlend == {"bool", "Vec", "Hotbar", "Block", "RaycastOutput"}

\* Hotbar::new
HotbarNew == [slots |-> [i \in 0..8 |-> None], active |-> 0]

\* impl<T: Blend + Clone> Blend for Option<T>, and the impl chosen by the type
RECURSIVE blend(_, _, _)
blend(self, other, alpha) ==
    IF self.ty = "f32" THEN [ty |-> "f32", v |-> f32_blend(self.v, other.v, alpha)]
    ELSE IF self.ty = "Option"
    THEN IF self.v # None /\ other.v # None
         THEN [ty |-> "Option", v |-> Some(blend(self.v[1], other.v[1], alpha))]
         ELSE IF F32Lt(alpha, F32Half) THEN self ELSE other
    ELSE discrete_blend(self, other, alpha)

\* Values of each type
BlendValues(ty) ==
    IF ty = "bool" THEN {[ty |-> ty, v |-> v] : v \in BOOLEAN}
    ELSE IF ty = "Vec" THEN {[ty |-> ty, v |-> v] : v \in {<<>>, <<1, 2>>}}
    ELSE IF ty = "Hotbar"
    THEN {[ty |-> ty, v |-> [HotbarNew EXCEPT !.active = active]] : active \in {0, 8}}
    ELSE IF ty = "Block" THEN {[ty |-> ty, v |-> v] : v \in {AIR, STONE}}
    ELSE IF ty = "RaycastOutput"
    THEN {[ty |-> ty, v |-> RaycastOutput(<<1, 2, 3>>, normal)] :
            normal \in {<<0, 1, 0>>, <<-1, 0, 0>>}}
    ELSE {[ty |-> "f32", v |-> <<n, 1>>] : n \in {-1, 0, 3}}

OptionValues(ty) ==
    {[ty |-> "Option", v |-> v] : v \in {None} \cup {Some(x) : x \in BlendValues(ty)}}

\* The types blended: the discrete ones, Option<f32> and Option<RaycastOutput>
BlendTypes == DiscreteBlend \cup {"Option<f32>", "Option<RaycastOutput>"}

TypeValues(ty) ==
    IF ty = "Option<f32>" THEN OptionValues("f32")
    ELSE IF ty = "Option<RaycastOutput>" THEN OptionValues("RaycastOutput")
    ELSE BlendValues(ty)

\* alpha: the fraction of the tick elapsed, in eighths
Alphas == {<<n, 8>> : n \in 0..8}

InitBlend ==
    /\ \E ty \in BlendTypes : \E self \in TypeValues(ty), other \in TypeValues(ty) :
          \E alpha \in Alphas :
             last = [op |-> "input", self |-> self, other |-> other, alpha |-> alpha]
    /\ InitOther
    /\ game = None
    /\ ray = None
    /\ world = WorldNew(Vec3Zero)
    /\ heap = HeapNew
    /\ snapshot = None
    /\ panicked = FALSE
    /\ calls = 0
    /\ InitLoader

BlendCall ==
    /\ last.op = "input"
    /\ last' = [op |-> "blend", self |-> last.self, other |-> last.other,
                alpha |-> last.alpha,
                result |-> blend(last.self, last.other, last.alpha)]
    /\ UNCHANGED <<world, heap, snapshot, panicked, calls, loaderVars, game, ray, otherVars>>

NextBlend == BlendCall

SpecBlend == InitBlend /\ [][NextBlend]_vars

\* Before the midpoint
FirstHalf(alpha) == 2 * alpha[1] < alpha[2]

Snap(self, other, alpha) == IF FirstHalf(alpha) THEN self ELSE other

\* The quotient r is self + (other - self) * alpha
Between(r, self, other, alpha) ==
    r[1] * (self[2] * other[2] * alpha[2]) =
        r[2] * (self[1] * other[2] * (alpha[2] - alpha[1]) + other[1] * self[2] * alpha[1])

\* C22: the blend of two values of a DiscreteBlend type is the first when
\* alpha < 0.5 and the second when alpha >= 0.5; the blend of two Options
\* is Some of the blend of their contents when both are Some, and snaps at
\* the midpoint in the same way when either is None.
C22_SnapAtMidpoint ==
    last.op = "blend" =>
        /\ last.self.ty \in DiscreteBlend =>
              last.result = Snap(last.self, last.other, last.alpha)
        /\ last.self.ty = "Option" =>
              IF last.self.v # None /\ last.other.v # None
              THEN /\ last.result.ty = "Option"
                   /\ last.result.v # None
                   /\ last.self.v[1].ty \in DiscreteBlend =>
                         last.result.v[1] = Snap(last.self.v[1], last.other.v[1], last.alpha)
                   /\ last.self.v[1].ty = "f32" =>
                         Between(last.result.v[1].v, last.self.v[1].v, last.other.v[1].v,
                                 last.alpha)
              ELSE last.result = Snap(last.self, last.other, last.alpha)

\* At alpha = 0.5 a bool false blended with true has snapped to true, or
\* None blended with Some of an f32 has snapped to that Some.
C22_Witness ==
    /\ last.op = "blend"
    /\ last.alpha = <<4, 8>>
    /\ \/ /\ last.self.ty = "bool"
          /\ ~last.self.v
          /\ last.other.v
          /\ last.result = last.other
       \/ /\ last.self.ty = "Option"
          /\ last.self.v = None
          /\ last.other.v # None
          /\ last.other.v[1].ty = "f32"
          /\ last.result = last.other

(***************************************************************************)
(* LookBack<T> (lib.rs): the value of the previous tick and of the current *)
(* one.  T is a small integer here; a closure handed to push_from is one   *)
(* of a few named ones, and what it was called with is recorded.           *)
(***************************************************************************)
MaxPushes == 4

\* LookBack::new
LookBackNew(prev, curr) == [prev |-> prev, curr |-> curr]

\* LookBack::new_identical
new_identical(curr) == LookBackNew(curr, curr)

\* LookBack::push
look_back_push_over_prev(self, new) == [prev |-> new, curr |-> self.curr]
look_back_push(self, new) == [prev |-> self.curr, curr |-> new]

\* The closures f: impl FnOnce(&T, &mut T): the value of *new when f returns
Closures == {"set", "add_prev", "keep"}

closure_call(f, prev, new) ==
    IF f = "set" THEN 3
    ELSE IF f = "add_prev" THEN new + prev
    ELSE new

\* LookBack::push_from: the LookBack after the call, and the arguments of f
push_from(self, f) ==
    LET new == self.curr
    IN  [look_back |-> look_back_push(self, closure_call(f, self.prev, new)),
         args |-> <<self.prev, new>>]

\* The values pushed
LookBackValues == 0..2

InitLookBack ==
    /\ look_back \in {new_identical(curr) : curr \in LookBackValues}
                     \cup {LookBackNew(0, 1)}
    /\ InitTick
    /\ buffer = None
    /\ hotbar = None
    /\ drain = None
    /\ game = None
    /\ ray = None
    /\ world = WorldNew(Vec3Zero)
    /\ heap = HeapNew
    /\ snapshot = None
    /\ panicked = FALSE
    /\ last = [op |-> "new"]
    /\ calls = 0
    /\ InitLoader

LookBackPush ==
    /\ calls < MaxPushes
    /\ \E new \in LookBackValues :
          /\ look_back' = look_back_push(look_back, new)
          /\ last' = [op |-> "push", new |-> new, before |-> look_back]
    /\ calls' = calls + 1
    /\ UNCHANGED <<world, heap, snapshot, panicked, loaderVars, game, ray,
                   buffer, hotbar, drain, input, camera, motion, chunk_loader>>

LookBackPushFrom ==
    /\ calls < MaxPushes
    /\ \E f \in Closures :
          /\ look_back' = push_from(look_back, f).look_back
          /\ last' = [op |-> "push_from", f |-> f, args |-> push_from(look_back, f).args,
                      before |-> look_back]
    /\ calls' = calls + 1
    /\ UNCHANGED <<world, heap, snapshot, panicked, loaderVars, game, ray,
                   buffer, hotbar, drain, input, camera, motion, chunk_loader>>

NextLookBack == LookBackPush \/ LookBackPushFrom

SpecLookBack == InitLookBack /\ [][NextLookBack]_vars

\* C23: after a push, curr is the value pushed and prev the value curr had
\* before it; push_from calls the closure with the prev and a clone of the
\* curr of before the call, and pushes the value the closure leaves in the
\* clone.
C23_PrevFollowsCurr ==
    /\ last.op = "push" =>
          /\ look_back.curr = last.new
          /\ look_back.prev = last.before.curr
    /\ last.op = "push_from" =>
          /\ last.args = <<last.before.prev, last.before.curr>>
          /\ look_back.curr = closure_call(last.f, last.before.prev, last.before.curr)
          /\ look_back.prev = last.before.curr

\* test_look_back: with prev 1 and curr 2 the closure has set 3, so that
\* prev is 2 and curr 3.
C23_Witness ==
    /\ last.op = "push_from"
    /\ last.before = LookBackNew(1, 2)
    /\ last.f = "set"
    /\ look_back = LookBackNew(2, 3)

(***************************************************************************)
(* The hotbar (game.rs): Game::update moves the active slot by the scroll  *)
(* wheel.  scroll_delta is an i32, and so is the difference taken: where   *)
(* it leaves the i32 range a build with overflow checks panics and one     *)
(* without them wraps around modulo 2^32.                                  *)
(***************************************************************************)
MaxScrolls == 3

\* i32::MAX, i32::MIN
I32_MAX == 2147483647
I32_MIN == (-I32_MAX) - 1

\* hotbar.slots.len()
SLOTS_LEN == 9

\* a - b in i32 overflows
sub_overflows(a, b) ==
    \/ b < 0 /\ a > I32_MAX + b
    \/ b > 0 /\ a < I32_MIN + b

\* a - b in i32, wrapping: a - b - 2^32 when a - b > i32::MAX, a - b + 2^32
\* when a - b < i32::MIN
wrapping_sub(a, b) ==
    IF b < 0 /\ a > I32_MAX + b THEN ((a + I32_MIN) - b) + I32_MIN
    ELSE IF b > 0 /\ a < I32_MIN + b THEN ((a - I32_MIN) - b) - I32_MIN
    ELSE a - b

\* i32::rem_euclid, for a positive rhs
rem_euclid(lhs, rhs) == lhs % rhs

\* Game::update: the active slot after a scroll of scroll_delta
scroll(self, scroll_delta) ==
    [self EXCEPT !.active = rem_euclid(wrapping_sub(self.active, scroll_delta), SLOTS_LEN)]

\* input.scroll_delta: a few notches either way, several turns of the
\* hotbar, and the ends of the i32 range
ScrollDeltas ==
    (-10..10) \cup {-1000, 1000, I32_MIN, I32_MIN + 1, I32_MIN + 8, I32_MIN + 9,
                    I32_MAX - 1, I32_MAX}

InitHotbar ==
    /\ hotbar = HotbarNew
    /\ InitTick
    /\ buffer = None
    /\ look_back = None
    /\ drain = None
    /\ game = None
    /\ ray = None
    /\ world = WorldNew(Vec3Zero)
    /\ heap = HeapNew
    /\ snapshot = None
    /\ panicked = FALSE
    /\ last = [op |-> "new"]
    /\ calls = 0
    /\ InitLoader

\* The subtraction stays in range, or wraps in a build without overflow checks
Scroll ==
    /\ ~panicked
    /\ calls < MaxScrolls
    /\ \E scroll_delta \in ScrollDeltas :
          /\ hotbar' = scroll(hotbar, scroll_delta)
          /\ last' = [op |-> "scroll", scroll_delta |-> scroll_delta, before |-> hotbar]
    /\ calls' = calls + 1
    /\ UNCHANGED <<world, heap, snapshot, panicked, loaderVars, game, ray,
                   buffer, look_back, drain, input, camera, motion, chunk_loader>>

\* The subtraction overflows in a build with overflow checks: the tick panics
ScrollPanic ==
    /\ ~panicked
    /\ calls < MaxScrolls
    /\ \E scroll_delta \in ScrollDeltas :
          /\ sub_overflows(hotbar.active, scroll_delta)
          /\ last' = [op |-> "scroll", scroll_delta |-> scroll_delta, before |-> hotbar]
    /\ panicked' = TRUE
    /\ calls' = calls + 1
    /\ UNCHANGED <<world, heap, snapshot, loaderVars, game, ray,
                   buffer, look_back, hotbar, drain, input, camera, motion, chunk_loader>>

NextHotbar == Scroll \/ ScrollPanic

SpecHotbar == InitHotbar /\ [][NextHotbar]_vars

\* (a - b) mod 9 of the integers a and b, for a in 0..8
Wrapped(a, b) == ((a + SLOTS_LEN) - (b % SLOTS_LEN)) % SLOTS_LEN

\* C24: a scroll of scroll_delta makes the active slot the previous one
\* minus scroll_delta modulo 9, an index into the nine slots, whatever
\* scroll_delta is.
C24_WrapsAround ==
    last.op = "scroll" =>
        /\ ~panicked
        /\ hotbar.active \in 0..(SLOTS_LEN - 1)
        /\ hotbar.active = Wrapped(last.before.active, last.scroll_delta)

\* What holds: the same for the scrolls whose difference is an i32.
C24_WrapsAroundInRange ==
    last.op = "scroll" /\ ~sub_overflows(last.before.active, last.scroll_delta) =>
        /\ ~panicked
        /\ hotbar.active \in 0..(SLOTS_LEN - 1)
        /\ hotbar.active = Wrapped(last.before.active, last.scroll_delta)

(***************************************************************************)
(* calculate_light_from as a function of its arguments: the block at the   *)
(* zero position, one of its face neighbors, and a source that is that     *)
(* neighbor, another one, the block itself or None.                        *)
(***************************************************************************)
\* The light of the block and of the neighbor: dark, around the attenuation
\* of one step, a lantern and its first steps, and full
LightLevels == {0, 15, 16, 17, 32, 192, 208, 224, 255}

InitLightFrom ==
    /\ \E p \in Range(face_neighbors(Vec3Zero)) :
          \E source \in {None, Some(Vec3Zero)}
                        \cup {Some(n) : n \in Range(face_neighbors(Vec3Zero))} :
             \E block_light \in LightLevels, b_light \in LightLevels :
                last = [op |-> "input", position |-> Vec3Zero,
                        block |-> LitBlock("Air", block_light, FALSE),
                        p |-> p, b |-> LitBlock("Air", b_light, FALSE),
                        source |-> source]
    /\ InitOther
    /\ game = None
    /\ ray = None
    /\ world = WorldNew(Vec3Zero)
    /\ heap = HeapNew
    /\ snapshot = None
    /\ panicked = FALSE
    /\ calls = 0
    /\ InitLoader

LightFromCall ==
    /\ last.op = "input"
    /\ last' = [last EXCEPT !.op = "calculate_light_from"] @@
               [new_light |-> calculate_light_from(last.position, last.block,
                                                   last.p, last.b, last.source)]
    /\ UNCHANGED <<world, heap, snapshot, panicked, calls, loaderVars, game, ray, otherVars>>

NextLightFrom == LightFromCall

SpecLightFrom == InitLightFrom /\ [][NextLightFrom]_vars

\* The light of a neighbor one step on: 16 less, and not below 0
OneStepOn(light) == IF light >= 16 THEN light - 16 ELSE 0

\* C25 as stated: the neighbor that is the declared source contributes 0
\* when what it would contribute exceeds the light the block had, and every
\* other neighbor contributes its light less 16, floored at 0.
C25_SourceCannotRaise ==
    last.op = "calculate_light_from" =>
        last.new_light =
            IF Some(last.p) = last.source /\ OneStepOn(last.b.light) > last.block.light
            THEN 0
            ELSE OneStepOn(last.b.light)

\* C25 as amended: the neighbor that is the declared source contributes 0
\* when what it would contribute is below the light the block had, and its
\* light less 16 otherwise, as every other neighbor does, floored at 0.
C25_DimmerSourceExcluded ==
    last.op = "calculate_light_from" =>
        last.new_light =
            IF Some(last.p) = last.source /\ OneStepOn(last.b.light) < last.block.light
            THEN 0
            ELSE OneStepOn(last.b.light)

\* The source holds 32 and the block 192: the 16 the source would contribute
\* is left out.
C25_Witness ==
    /\ last.op = "calculate_light_from"
    /\ Some(last.p) = last.source
    /\ last.b.light = 32
    /\ last.block.light = 192
    /\ last.new_light = 0

(***************************************************************************)
(* Game::update_blocks step by step: one action per pass of the while      *)
(* loop head, per update of the for loop, and for the writes that follow   *)
(* the for loop.  drain holds the locals of update_blocks:                 *)
(*   pc        "while" at the head of the while loop, "for" inside the     *)
(*             for loop;                                                   *)
(*   dirty     the updates of the batch not yet processed (dirty_blocks);  *)
(*   replaces  the HashMap replaces;                                       *)
(* and, to state what a step did, values the code does not keep:           *)
(*   batch, rest  the batch as popped and the queue as the pop left it;    *)
(*   start     the blocks when the batch was popped;                       *)
(*   done      the update processed last, with the queue and replaces as   *)
(*             they were before it.                                        *)
(* drain is None outside update_blocks.                                    *)
(***************************************************************************)
MaxStepEdits == 2

\* update_blocks up to the head of the while loop
update_blocks_enter(g) ==
    [game |-> [g EXCEPT !.block_update_count = 0],
     drain |-> [pc |-> "while", dirty |-> <<>>, replaces |-> <<>>,
                batch |-> <<>>, rest |-> <<>>, start |-> None, done |-> None]]

\* The condition of the while loop
while_condition(g) ==
    g.block_update_count < MAX_UPDATES_COUNT /\ Len(g.dirty_blocks) # 0

\* The head of the body of the while loop: the batch is popped
pop_batch(g, d) ==
    LET update_count == Min(Len(g.dirty_blocks), MAX_UPDATES_COUNT)
        dirty == SubSeq(g.dirty_blocks, 1, update_count)
        rest == SubSeq(g.dirty_blocks, update_count + 1, Len(g.dirty_blocks))
    IN  [game |-> [g EXCEPT !.dirty_blocks = rest,
                            !.block_update_count = @ + update_count],
         drain |-> [pc |-> "for", dirty |-> dirty, replaces |-> <<>>,
                    batch |-> dirty, rest |-> rest, start |-> g.blocks, done |-> None]]

\* What is kept of a step of the for loop
Done(g, d) == [update |-> Head(d.dirty), queue |-> g.dirty_blocks, replaces |-> d.replaces]

\* The body of the for loop, for the first update of `dirty`
for_body_notify_any_change(g, d) ==
    LET update == Head(d.dirty)
        position == update.target
        next == [d EXCEPT !.dirty = Tail(@), !.done = Done(g, d)]
    IN  IF world_get_block(g.blocks, position) = None THEN [game |-> g, drain |-> next]
        ELSE IF position \in DOMAIN d.replaces THEN [game |-> g, drain |-> next]
        ELSE LET block == g.blocks[position]
                 new_block == new_block_at(g.blocks, position, update.source)
                 should_notify_neighbor ==
                     block.light # new_block.light \/ block.open_to_sky # new_block.open_to_sky
             IN  [game |->
                     IF update.source = None \/ new_block # block \/ update.state_changed
                     THEN [g EXCEPT !.dirty_blocks =
                              @ \o neighbor_updates(position, should_notify_neighbor)]
                     ELSE g,
                  drain |->
                     IF new_block # block
                     THEN [next EXCEPT !.replaces = (position :> new_block) @@ @]
                     ELSE next]
for_body(g, d) ==
    LET update == Head(d.dirty)
        position == update.target
        next == [d EXCEPT !.dirty = Tail(@), !.done = Done(g, d)]
    IN  IF world_get_block(g.blocks, position) = None THEN [game |-> g, drain |-> next]
        ELSE IF position \in DOMAIN d.replaces THEN [game |-> g, drain |-> next]
        ELSE LET block == g.blocks[position]
                 new_block == new_block_at(g.blocks, position, update.source)
                 should_notify_neighbor ==
                     block.light # new_block.light \/ block.open_to_sky # new_block.open_to_sky
             IN  [game |->
                     IF update.source = None \/ should_notify_neighbor \/ update.state_changed
                     THEN [g EXCEPT !.dirty_blocks =
                              @ \o neighbor_updates(position, should_notify_neighbor)]
                     ELSE g,
                  drain |->
                     IF new_block # block
                     THEN [next EXCEPT !.replaces = (position :> new_block) @@ @]
                     ELSE next]

\* for (position, block) in replaces: set_block1(position, block, false)
set_replaces_above(g, d) ==
    [game |-> [g EXCEPT !.blocks =
                  [p \in {Vec3Add(q, unit_y) : q \in DOMAIN d.replaces} \cap DOMAIN @ |->
                      d.replaces[Vec3Sub(p, unit_y)]] @@ @],
     drain |-> [d EXCEPT !.pc = "while", !.done = None]]
set_replaces(g, d) ==
    [game |-> [g EXCEPT !.blocks = d.replaces @@ @],
     drain |-> [d EXCEPT !.pc = "while", !.done = None]]

\* world.load(chunk_coord, chunk) as get_block sees it: the positions of the
\* chunk are loaded, with the blocks the chunk holds
world_load(blocks, chunk) == chunk @@ blocks

\* A block of stone with one block of air in its side: no light anywhere,
\* the top layer under the world border
Rock ==
    [p \in Box(<<2, 2, 2>>) |->
        LitBlock(IF p = <<2, 1, 1>> THEN "Air" ELSE "Stone", 0, p[2] = 2)]

StepWorlds == {Rock, DarkCave(<<2, 2, 0>>)}

\* handle_place_destroy: the left button destroys the block looked at, the
\* right one places a block against the face looked at; `edits` is the one
\* call of set_block, or the two, that follow
RECURSIVE handle_place_destroy(_, _)
handle_place_destroy(g, edits) ==
    IF edits = <<>> THEN g
    ELSE handle_place_destroy(game_set_block(g, Head(edits)[1], Head(edits)[2]), Tail(edits))

\* What the mouse buttons place and destroy in one tick of SpecStep: stone
\* into the hole of the rock, a lantern under the roof of the cave, the
\* roof above it destroyed, both of these at once (the roof looked at
\* from below), and a lantern against the outer face of the loaded box,
\* where no chunk is loaded until StepChunk arrives
StepEdits ==
    { << <<<<2, 1, 1>>, STONE>> >>,
      << <<<<1, 1, 0>>, LANTERN>> >>,
      << <<<<1, 2, 0>>, AIR>> >>,
      << <<<<1, 2, 0>>, AIR>>, <<<<1, 1, 0>>, LANTERN>> >>,
      << <<<<3, 1, 0>>, LANTERN>> >> }

\* The positions edited
EditPositions == UNION {{edits[i][1] : i \in 1..Len(edits)} : edits \in StepEdits}

\* The chunk that arrives: unlit air next to the loaded box, as generated
StepChunk == [p \in {<<3, y, 0>> : y \in 0..2} |-> AIR]

InitStep ==
    /\ game \in {GameNew(blocks) : blocks \in StepWorlds}
    /\ InitTick
    /\ drain = None
    /\ buffer = None
    /\ look_back = None
    /\ hotbar = None
    /\ ray = None
    /\ world = WorldNew(Vec3Zero)
    /\ heap = HeapNew
    /\ snapshot = None
    /\ panicked = FALSE
    /\ last = [op |-> "new", dropped |-> {}]
    /\ calls = 0
    /\ InitLoader

\* Game::update with a mouse button just pressed, or both, up to the while
\* loop of update_blocks: handle_place_destroy calls set_block.
StepEdit ==
    /\ drain = None
    /\ calls < MaxStepEdits
    /\ \E edits \in StepEdits :
          /\ game' = update_blocks_enter(handle_place_destroy(game, edits)).game
          /\ drain' = update_blocks_enter(handle_place_destroy(game, edits)).drain
          /\ last' = [op |-> "set_block", edits |-> edits, before |-> game,
                      dropped |-> last.dropped]
    /\ calls' = calls + 1
    /\ UNCHANGED <<world, heap, snapshot, panicked, loaderVars, ray,
                   buffer, look_back, hotbar, input, camera, motion, chunk_loader>>

\* The while loop goes round once more: the batch is popped
StepPop ==
    /\ drain # None
    /\ drain.pc = "while"
    /\ while_condition(game)
    /\ game' = pop_batch(game, drain).game
    /\ drain' = pop_batch(game, drain).drain
    /\ UNCHANGED <<world, heap, snapshot, panicked, last, calls, loaderVars, ray,
                   buffer, look_back, hotbar, input, camera, motion, chunk_loader>>

\* One update of the batch
StepUpdateInPlace ==
    /\ drain # None
    /\ drain.pc = "for"
    /\ drain.dirty # <<>>
    /\ game' = [for_body(game, drain).game EXCEPT
                    !.blocks = for_body(game, drain).drain.replaces @@ @]
    /\ drain' = for_body(game, drain).drain
    /\ last' = IF Head(drain.dirty).target \in DOMAIN game.blocks THEN last
               ELSE [last EXCEPT !.dropped = @ \cup {Head(drain.dirty).target}]
    /\ UNCHANGED <<world, heap, snapshot, panicked, calls, loaderVars, ray,
                   buffer, look_back, hotbar, input, camera, motion, chunk_loader>>
StepUpdate ==
    /\ drain # None
    /\ drain.pc = "for"
    /\ drain.dirty # <<>>
    /\ game' = for_body(game, drain).game
    /\ drain' = for_body(game, drain).drain
    /\ last' = IF Head(drain.dirty).target \in DOMAIN game.blocks THEN last
               ELSE [last EXCEPT !.dropped = @ \cup {Head(drain.dirty).target}]
    /\ UNCHANGED <<world, heap, snapshot, panicked, calls, loaderVars, ray,
                   buffer, look_back, hotbar, input, camera, motion, chunk_loader>>

\* The for loop is over: the replacements are written
StepReplace ==
    /\ drain # None
    /\ drain.pc = "for"
    /\ drain.dirty = <<>>
    /\ game' = set_replaces(game, drain).game
    /\ drain' = set_replaces(game, drain).drain
    /\ UNCHANGED <<world, heap, snapshot, panicked, last, calls, loaderVars, ray,
                   buffer, look_back, hotbar, input, camera, motion, chunk_loader>>

\* The while loop ends and update_blocks returns
StepReturn ==
    /\ drain # None
    /\ drain.pc = "while"
    /\ ~while_condition(game)
    /\ drain' = None
    /\ UNCHANGED <<world, heap, snapshot, panicked, last, calls, loaderVars, ray, game,
                   buffer, look_back, hotbar, input, camera, motion, chunk_loader>>

\* The end of Game::update: a chunk received from the ChunkLoader is loaded
StepLoadReplay ==
    /\ drain = None
    /\ last.op # "new"
    /\ DOMAIN StepChunk \cap DOMAIN game.blocks = {}
    /\ game' = [game EXCEPT !.blocks = world_load(@, StepChunk),
                            !.dirty_blocks = @ \o <<BlockUpdate(<<3, 1, 0>>, None, TRUE)>>]
    /\ last' = [op |-> "load", chunk |-> StepChunk, before |-> game,
                dropped |-> last.dropped]
    /\ UNCHANGED <<world, heap, snapshot, panicked, calls, loaderVars, ray, drain,
                   buffer, look_back, hotbar, input, camera, motion, chunk_loader>>
StepLoad ==
    /\ drain = None
    /\ last.op # "new"
    /\ DOMAIN StepChunk \cap DOMAIN game.blocks = {}
    /\ game' = [game EXCEPT !.blocks = world_load(@, StepChunk)]
    /\ last' = [op |-> "load", chunk |-> StepChunk, before |-> game,
                dropped |-> last.dropped]
    /\ UNCHANGED <<world, heap, snapshot, panicked, calls, loaderVars, ray, drain,
                   buffer, look_back, hotbar, input, camera, motion, chunk_loader>>

NextStep == StepEdit \/ StepPop \/ StepUpdate \/ StepReplace \/ StepReturn \/ StepLoad

SpecStep == InitStep /\ [][NextStep]_vars

(***************************************************************************)
(* What one step of the for loop did, read off the state after it.         *)
(***************************************************************************)
\* An update of the batch has just been processed
Processed == drain # None /\ drain.pc = "for" /\ drain.done # None

\* The update processed and its target
Update == drain.done.update
Target == drain.done.update.target

\* The updates the step has put on the queue
Enqueued == SubSeq(game.dirty_blocks, Len(drain.done.queue) + 1, Len(game.dirty_blocks))

\* The target was loaded, and had no replacement recorded before the step
Loaded == Target \in DOMAIN game.blocks
Evaluated == Loaded /\ Target \notin DOMAIN drain.done.replaces

\* The step has recorded a replacement: a recomputed value differs
Replaced == Target \in DOMAIN drain.replaces /\ Target \notin DOMAIN drain.done.replaces

\* The block of the target before the batch and as recomputed
OldBlock == drain.start[Target]
NewBlock == IF Replaced THEN drain.replaces[Target] ELSE drain.start[Target]

LightOrSkyChanged ==
    NewBlock.light # OldBlock.light \/ NewBlock.open_to_sky # OldBlock.open_to_sky

\* C26: every update enqueued while the block at p is processed has a face
\* neighbor of p as its target and Some(p) as its source, not its own
\* target; an update whose source is None is the one of a direct edit.
C26_SourceIsTrigger ==
    /\ Processed =>
          \A k \in 1..Len(Enqueued) :
             /\ Enqueued[k].target \in Range(face_neighbors(Target))
             /\ Enqueued[k].source = Some(Target)
             /\ Enqueued[k].source # Some(Enqueued[k].target)
    /\ game # None /\ drain # None =>
          \A u \in Range(game.dirty_blocks) \cup Range(drain.dirty) :
             u.source = None => u.target \in EditPositions

\* The six updates for the face neighbors of the target
ToAllNeighbors ==
    /\ Len(Enqueued) = 6
    /\ \A k \in 1..6 : Enqueued[k].target = face_neighbors(Target)[k]

\* C27 as stated: an update for a loaded block enqueues updates for the
\* face neighbors exactly when a recomputed value of the block changed, or
\* the update carried state_changed, or its source is None, and nothing
\* otherwise; state_changed of the enqueued updates tells whether light or
\* open_to_sky changed.
C27_NotifyOnAnyChange ==
    Processed /\ Loaded =>
        /\ IF Replaced \/ Update.state_changed \/ Update.source = None
           THEN ToAllNeighbors
           ELSE Enqueued = <<>>
        /\ \A k \in 1..Len(Enqueued) : Enqueued[k].state_changed = LightOrSkyChanged

\* C27 as amended: an update for a loaded block with no replacement recorded
\* yet in the batch enqueues updates for the six face neighbors exactly
\* when the light or open_to_sky of the block changed, or the update
\* carried state_changed, or its source is None; an update for a block with
\* a replacement recorded is skipped and enqueues nothing; state_changed of
\* the enqueued updates tells whether light or open_to_sky changed.
C27_NotifyOnLightOrSky ==
    Processed /\ Loaded =>
        /\ IF Evaluated /\ (LightOrSkyChanged \/ Update.state_changed \/ Update.source = None)
           THEN ToAllNeighbors
           ELSE Enqueued = <<>>
        /\ \A k \in 1..Len(Enqueued) : Enqueued[k].state_changed = LightOrSkyChanged

\* The block in the middle of the rock has become occluded, and that alone:
\* nothing is enqueued.
C27_Witness ==
    /\ Processed
    /\ Evaluated
    /\ Replaced
    /\ ~LightOrSkyChanged
    /\ ~Update.state_changed
    /\ Update.source # None
    /\ Enqueued = <<>>

\* Skipped: an update that carried state_changed, for a block whose
\* replacement an earlier update of the batch has recorded.
C27_WitnessSkipped ==
    /\ Processed
    /\ Loaded
    /\ ~Evaluated
    /\ Update.state_changed
    /\ Enqueued = <<>>

\* The positions the updates processed so far in the batch were for
TargetsSoFar ==
    {drain.batch[i].target : i \in 1..(Len(drain.batch) - Len(drain.dirty))}

\* C28: while the updates of a batch are processed the blocks stay as they
\* were when the batch was popped, so that every recomputation reads those;
\* a replacement once recorded for a position stays as recorded; after the
\* batch the blocks are those of before it with every replacement written,
\* and batch and queue are as if every update had been computed against the
\* blocks of before the batch.
C28_WrittenAfterBatch ==
    drain # None /\ drain.start # None =>
        /\ drain.pc = "for" =>
              /\ game.blocks = drain.start
              /\ DOMAIN drain.replaces \subseteq TargetsSoFar \cap DOMAIN drain.start
              /\ \A p \in DOMAIN drain.replaces : drain.replaces[p] # drain.start[p]
        /\ Processed =>
              /\ \A p \in DOMAIN drain.done.replaces :
                    drain.replaces[p] = drain.done.replaces[p]
              /\ Replaced => drain.replaces[Target] =
                                new_block_at(drain.start, Target, Update.source)
              /\ DOMAIN drain.replaces \subseteq DOMAIN drain.done.replaces \cup {Target}
        /\ drain.pc = "for" /\ drain.dirty = <<>> =>
              /\ drain.replaces = for_dirty_blocks(drain.start, drain.batch, drain.rest).replaces
              /\ game.dirty_blocks =
                    for_dirty_blocks(drain.start, drain.batch, drain.rest).queue
        /\ drain.pc = "while" =>
              /\ \A p \in DOMAIN drain.start :
                    game.blocks[p] = IF p \in DOMAIN drain.replaces THEN drain.replaces[p]
                                     ELSE drain.start[p]
              /\ DOMAIN game.blocks = DOMAIN drain.start

\* A batch in which one update has recorded a replacement and a later one
\* for a neighbor of that block has been evaluated: the blocks are still
\* those of before the batch.
C28_Witness ==
    /\ Processed
    /\ Evaluated
    /\ game.blocks = drain.start
    /\ \E p \in DOMAIN drain.done.replaces : p \in Range(face_neighbors(Target))

\* The position directly above the target
AboveTarget == Vec3Add(Target, <<0, 1, 0>>)

\* C29: the open_to_sky an update leaves its target with is true when no
\* block is loaded directly above, and otherwise tells whether the block
\* above, as it was before the batch, lets light pass and is open to the
\* sky.
C29_SkyFromAbove ==
    Processed /\ Evaluated =>
        NewBlock.open_to_sky =
            IF AboveTarget \notin DOMAIN drain.start THEN TRUE
            ELSE /\ drain.start[AboveTarget].ty \in {"Air", "Mesh"}
                 /\ drain.start[AboveTarget].open_to_sky

\* The roof has been destroyed and a lantern placed under it in one tick:
\* the replacement recorded for the block above is open to the sky, the
\* block above as it was before the batch is not, and the lantern is left
\* closed to the sky.
C29_Witness ==
    /\ Processed
    /\ Evaluated
    /\ AboveTarget \in DOMAIN drain.replaces
    /\ drain.replaces[AboveTarget].open_to_sky
    /\ ~drain.start[AboveTarget].open_to_sky
    /\ drain.start[AboveTarget].ty = "Air"
    /\ ~NewBlock.open_to_sky

\* Under the world border: the block above is not loaded.
C29_WitnessBorder ==
    /\ Processed
    /\ Evaluated
    /\ Replaced
    /\ AboveTarget \notin DOMAIN drain.start
    /\ NewBlock.open_to_sky

\* C30: an update whose target is not loaded changes no block, records no
\* replacement, enqueues nothing and is not put back: it is in neither the
\* rest of the batch nor the queue unless it was there before; and the load
\* of a chunk leaves the queue as it was, the updates dropped for positions
\* of the chunk not among it.
C30_Dropped ==
    /\ Processed /\ ~Loaded =>
          /\ game.blocks = drain.start
          /\ drain.replaces = drain.done.replaces
          /\ game.dirty_blocks = drain.done.queue
          /\ drain.dirty = SubSeq(drain.batch, Len(drain.batch) - Len(drain.dirty) + 1,
                                  Len(drain.batch))
    /\ last.op = "load" =>
          /\ drain = None
          /\ game.dirty_blocks = last.before.dirty_blocks
          /\ \A p \in DOMAIN last.chunk : game.blocks[p] = last.chunk[p]
          /\ \A p \in DOMAIN last.before.blocks : game.blocks[p] = last.before.blocks[p]

\* A chunk has been loaded that holds positions for which updates were
\* dropped, and no update is queued.
C30_Witness ==
    /\ last.op = "load"
    /\ last.dropped \cap DOMAIN last.chunk # {}
    /\ game.dirty_blocks = <<>>

\* handle_place_destroy has just run, and update_blocks has popped nothing yet
JustEdited == last.op = "set_block" /\ drain # None /\ drain.pc = "while" /\ drain.start = None

\* The calls of set_block of the tick on positions that were loaded
LoadedEdits == SelectSeq(last.edits, LAMBDA e : e[1] \in DOMAIN last.before.blocks)

C31_WitnessTwo ==
    /\ JustEdited
    /\ Len(LoadedEdits) = 2
    /\ Len(game.dirty_blocks) = 2

\* C39: a batch of the drain leaves the type of every block as it was,
\* writes no block but the targets of its updates, and every block it
\* writes differs from the block of before in light, open_to_sky or
\* occluded only.
C39_DerivedFieldsOnly ==
    drain # None /\ drain.pc = "while" /\ drain.start # None =>
        /\ DOMAIN game.blocks = DOMAIN drain.start
        /\ \A p \in DOMAIN drain.start :
              /\ game.blocks[p].ty = drain.start[p].ty
              /\ DOMAIN game.blocks[p] = {"ty", "light", "open_to_sky", "occluded"}
              /\ (\A i \in 1..Len(drain.batch) : drain.batch[i].target # p) =>
                    game.blocks[p] = drain.start[p]

\* A batch has changed the light of a block and left its neighbors, for
\* which it had no update, as they were.
C39_Witness ==
    /\ drain # None
    /\ drain.pc = "while"
    /\ drain.start # None
    /\ \E p \in DOMAIN drain.start :
          /\ game.blocks[p].light # drain.start[p].light
          /\ \E q \in Range(face_neighbors(p)) \cap DOMAIN drain.start :
                /\ \A i \in 1..Len(drain.batch) : drain.batch[i].target # q
                /\ game.blocks[q] = drain.start[q]

(***************************************************************************)
(* InputState (input.rs): the ButtonState of the keys.  `input` is the     *)
(* HashMap keys: None for a key with no entry.  mouse_buttons is the same  *)
(* map with the same code over MouseButton.                                *)
(***************************************************************************)
MaxInputs == 4

\* ButtonState
ButtonState == {"KeptPressed", "JustPressed", "KeptReleased", "JustReleased"}

just_pressed(self) == self = "JustPressed"
kept_pressed(self) == self = "KeptPressed"
pressed(self) == kept_pressed(self) \/ just_pressed(self)
released(self) == self = "KeptReleased" \/ self = "JustReleased"

\* InputState::get_key: unwrap_or_default, the default being KeptReleased
get_key(self, keycode) ==
    IF self[keycode] # None THEN unwrap(self[keycode]) ELSE "KeptReleased"

\* InputState::update_held_status
update_held_status(self) ==
    [keycode \in DOMAIN self |->
        IF self[keycode] = None THEN None
        ELSE IF pressed(get_key(self, keycode)) THEN Some("KeptPressed")
        ELSE Some("KeptReleased")]

\* InputState::push_keyboard_event
push_keyboard_event_always_just(self, event) ==
    [self EXCEPT ![event.key] =
        IF event.state = "Press" THEN Some("JustPressed") ELSE Some("JustReleased")]
push_keyboard_event(self, event) ==
    [self EXCEPT ![event.key] =
        IF event.state = "Press"
        THEN IF pressed(get_key(self, event.key))
             THEN Some("KeptPressed") ELSE Some("JustPressed")
        ELSE IF released(get_key(self, event.key))
             THEN Some("KeptReleased") ELSE Some("JustReleased")]

InitInput ==
    /\ input = [keycode \in Keycode |-> None]
    /\ chunk_loader = ChunkLoaderNew
    /\ camera = None
    /\ motion = None
    /\ buffer = None
    /\ look_back = None
    /\ hotbar = None
    /\ drain = None
    /\ game = None
    /\ ray = None
    /\ world = WorldNew(Vec3Zero)
    /\ heap = HeapNew
    /\ snapshot = None
    /\ panicked = FALSE
    /\ last = [op |-> "new"]
    /\ calls = 0
    /\ InitLoader

PushKeyboardEvent ==
    /\ calls < MaxInputs
    /\ \E key \in Keycode, state \in ButtonStateEvent :
          /\ input' = push_keyboard_event(input, [key |-> key, state |-> state])
          /\ last' = [op |-> "push_keyboard_event", key |-> key, state |-> state,
                      before |-> input]
    /\ calls' = calls + 1
    /\ UNCHANGED <<world, heap, snapshot, panicked, loaderVars, game, ray,
                   buffer, look_back, hotbar, drain, camera, motion, chunk_loader>>

UpdateHeldStatus ==
    /\ calls < MaxInputs
    /\ input' = update_held_status(input)
    /\ last' = [op |-> "update_held_status", before |-> input]
    /\ calls' = calls + 1
    /\ UNCHANGED <<world, heap, snapshot, panicked, loaderVars, game, ray,
                   buffer, look_back, hotbar, drain, camera, motion, chunk_loader>>

NextInput == PushKeyboardEvent \/ UpdateHeldStatus

SpecInput == InitInput /\ [][NextInput]_vars

\* What get_key reads for a key
Reads(self, key) == IF self[key] = None THEN "KeptReleased" ELSE self[key][1]

Down(state) == state \in {"KeptPressed", "JustPressed"}

\* C35: a Press on a released key gives JustPressed and on a pressed key
\* KeptPressed, a Release on a pressed key gives JustReleased and on a
\* released key KeptReleased, the other keys staying as they were;
\* update_held_status turns JustPressed into KeptPressed and JustReleased
\* into KeptReleased and leaves the two Kept states, so that no key reads
\* just pressed or just released after it; a key never seen reads
\* KeptReleased.
C35_FourStates ==
    /\ \A key \in Keycode : input[key] = None => get_key(input, key) = "KeptReleased"
    /\ last.op = "push_keyboard_event" =>
          /\ Reads(input, last.key) =
                IF last.state = "Press"
                THEN IF Down(Reads(last.before, last.key)) THEN "KeptPressed"
                     ELSE "JustPressed"
                ELSE IF Down(Reads(last.before, last.key)) THEN "JustReleased"
                     ELSE "KeptReleased"
          /\ \A key \in Keycode \ {last.key} : input[key] = last.before[key]
    /\ last.op = "update_held_status" =>
          \A key \in Keycode :
             /\ Reads(input, key) = IF Down(Reads(last.before, key)) THEN "KeptPressed"
                                    ELSE "KeptReleased"
             /\ ~just_pressed(get_key(input, key))
             /\ (input[key] = None) = (last.before[key] = None)

\* A key just pressed has become kept pressed at update_held_status.
C35_Witness ==
    /\ last.op = "update_held_status"
    /\ \E key \in Keycode :
          /\ Reads(last.before, key) = "JustPressed"
          /\ Reads(input, key) = "KeptPressed"

(***************************************************************************)
(* Player collision (Game::handle_collision).  Lengths are tenths of a     *)
(* block.  The viewpoint is camera.position = v / d, a vector of whole     *)
(* numbers over a positive whole number, because the time of a collision   *)
(* is a quotient; sweep_test compares quotients of lengths, so it is       *)
(* called on the boxes and the velocity multiplied by the denominator.     *)
(* game.blocks are the loaded blocks, all of one chunk, which chunks_iter  *)
(* and indexed_iter yield in the order of their coordinates.               *)
(***************************************************************************)
MaxTicks == 2

MAX_ITERATIONS == 4

PLAYER_SIZE == <<2, 18, 2>>
PLAYER_ORIGIN == <<1, 15, 1>>

RECURSIVE Gcd(_, _)
Gcd(a, b) == IF b = 0 THEN a ELSE Gcd(b, a % b)

Vec3Scale(v, k) == [i \in 1..3 |-> v[i] * k]
Vec3Dot(a, b) == a[1] * b[1] + a[2] * b[2] + a[3] * b[3]

\* v / d in lowest terms
Quotient3(v, d) ==
    LET g == Gcd(Gcd(Gcd(Abs(v[1]), Abs(v[2])), Abs(v[3])), d)
    IN  [v |-> [i \in 1..3 |-> v[i] \div g], d |-> d \div g]

\* Aabb::collides_with_aabb: the boxes overlap or touch on every axis
collides_with_aabb(a, b) ==
    \A i \in 1..3 : a.min[i] <= b.max[i] /\ a.max[i] >= b.min[i]

\* player_velocity = self.camera.position - initial.camera.position, as the
\* vector V over the denominator of both positions
player_velocity(position, initial) ==
    [v |-> Vec3Sub(Vec3Scale(position.v, initial.d), Vec3Scale(initial.v, position.d)),
     d |-> position.d * initial.d]

\* player_sweep, in units of 1 / (position.d * initial.d) tenths
player_sweep(position, initial) ==
    LET min == Vec3Scale(Vec3Sub(initial.v, Vec3Scale(PLAYER_ORIGIN, initial.d)), position.d)
    IN  [collider |-> Aabb(min, Vec3Scale(PLAYER_SIZE, position.d * initial.d)),
         velocity |-> player_velocity(position, initial).v]

\* broad_box: the player's box stretched over the displacement
broad_box(sweep) ==
    LET min == [i \in 1..3 |-> IF sweep.velocity[i] > 0 THEN sweep.collider.min[i]
                               ELSE sweep.collider.min[i] + sweep.velocity[i]]
    IN  Aabb(min, [i \in 1..3 |-> sweep.collider.max[i] - sweep.collider.min[i]
                                     + Abs(sweep.velocity[i])])

\* block_box of the block at pos, in the units of the sweep
block_box(pos, scale) == Aabb(Vec3Scale(pos, 10 * scale), <<10 * scale, 10 * scale, 10 * scale>>)

\* The order in which the blocks of a chunk are visited
LexLess(p, q) ==
    \/ p[1] < q[1]
    \/ p[1] = q[1] /\ p[2] < q[2]
    \/ p[1] = q[1] /\ p[2] = q[2] /\ p[3] < q[3]

\* The positions whose sweep_test result is pushed onto collisions
collisions(blocks, position, initial) ==
    LET sweep == player_sweep(position, initial)
        scale == position.d * initial.d
    IN  {pos \in DOMAIN blocks :
            /\ blocks[pos].ty # "Air"
            /\ collides_with_aabb(broad_box(sweep), block_box(pos, scale))
            /\ sweep_test(sweep, block_box(pos, scale)) # None}

\* collisions.reverse() and min_by time: of the collisions of the least
\* time, the one pushed last
min_by_time(blocks, position, initial) ==
    LET sweep == player_sweep(position, initial)
        scale == position.d * initial.d
        result(pos) == unwrap(sweep_test(sweep, block_box(pos, scale)))
        found == collisions(blocks, position, initial)
        least == {pos \in found : \A q \in found : ~F32Lt(result(q).time, result(pos).time)}
    IN  IF found = {} THEN None
        ELSE Some(result(CHOOSE pos \in least : \A q \in least \ {pos} : LexLess(q, pos)))

\* The position after the collision and the slide:
\* initial + velocity * time + (remaining - remaining.dot(normal) * normal)
slide(position, initial, result) ==
    LET vel == player_velocity(position, initial)
        tn == result.time[1]
        td == result.time[2]
        n == result.normal.v
        m == result.normal.magnitude_squared
        moved == Vec3Sub(Vec3Scale(vel.v, td * m), Vec3Scale(n, Vec3Dot(vel.v, n) * (td - tn)))
        den == vel.d * td * m
    IN  Quotient3(Vec3Add(Vec3Scale(initial.v, (den \div initial.d)), moved), den)

\* One pass of 'iteration_loop on self = (position, velocity_y, on_ground);
\* normals are the normals of the collisions resolved so far
iteration_any_vertical(self, result) ==
    [position |-> slide(self.position, self.initial, result),
     initial |-> self.initial,
     velocity_y |-> IF result.normal = Vec3New(0, -1, 0) THEN 0 ELSE self.velocity_y,
     on_ground |-> IF result.normal.v[2] # 0 THEN TRUE ELSE self.on_ground,
     normals |-> Append(self.normals, result.normal)]
iteration(self, result) ==
    [position |-> slide(self.position, self.initial, result),
     initial |-> self.initial,
     velocity_y |-> IF result.normal = Vec3New(0, -1, 0) THEN 0 ELSE self.velocity_y,
     on_ground |-> IF result.normal.v[2] > 0 THEN TRUE ELSE self.on_ground,
     normals |-> Append(self.normals, result.normal)]

RECURSIVE iteration_loop(_, _, _)
iteration_loop(blocks, self, count) ==
    IF count = MAX_ITERATIONS THEN self
    ELSE LET found == min_by_time(blocks, self.position, self.initial)
         IN  IF found = None THEN self
             ELSE iteration_loop(blocks, iteration(self, unwrap(found)), count + 1)

\* Game::handle_collision
handle_collision(blocks, position, velocity_y, initial) ==
    iteration_loop(blocks,
                   [position |-> position, initial |-> initial, velocity_y |-> velocity_y,
                    on_ground |-> FALSE, normals |-> <<>>],
                   0)

\* A floor of stone under air, with a stone column on it and a stone roof
\* over a part of it
Room ==
    [p \in Box(<<2, 4, 1>>) |->
        IF p[2] = 0 \/ (p[1] = 2 /\ p[2] \in 1..2) \/ (p[1] = 0 /\ p[2] = 4)
        THEN STONE ELSE AIR]

\* No block at all but air
Sky == [p \in Box(<<2, 4, 1>>) |-> AIR]

CollisionWorlds == {Room, Sky}

\* Standing on the floor in the open or next to the column, or half a block
\* above the floor in the open or under the roof
StartPositions == {<<15, 25, 10>>, <<5, 30, 10>>, <<15, 30, 10>>, <<18, 25, 10>>}

\* The displacement of a tick: movement along x and z, and velocity.y
Displacements ==
    {<<dx, dy, dz>> : dx \in {-4, 0, 6}, dy \in {-5, 0, 7}, dz \in {0, 2}}

InitCollision ==
    /\ \E blocks \in CollisionWorlds : game = GameNew(blocks)
    /\ \E p \in StartPositions : camera = [position |-> [v |-> p, d |-> 1]]
    /\ motion = [velocity_y |-> 0, on_ground |-> FALSE]
    /\ input = None
    /\ chunk_loader = ChunkLoaderNew
    /\ buffer = None
    /\ look_back = None
    /\ hotbar = None
    /\ drain = None
    /\ ray = None
    /\ world = WorldNew(Vec3Zero)
    /\ heap = HeapNew
    /\ snapshot = None
    /\ panicked = FALSE
    /\ last = [op |-> "new"]
    /\ calls = 0
    /\ InitLoader

\* Game::update up to handle_collision: the viewpoint is moved by the
\* movement vector and the velocity, then the collisions are resolved
HandleCollision ==
    /\ calls < MaxTicks
    /\ \E displacement \in Displacements :
          LET initial == camera.position
              moved == [v |-> Vec3Add(initial.v, Vec3Scale(displacement, initial.d)),
                        d |-> initial.d]
          IN  \E self \in {handle_collision(game.blocks, moved, displacement[2], initial)} :
                 /\ camera' = [position |-> self.position]
                 /\ motion' = [velocity_y |-> self.velocity_y, on_ground |-> self.on_ground]
                 /\ last' = [op |-> "handle_collision", initial |-> initial,
                             on_ground |-> motion.on_ground, normals |-> self.normals]
    /\ calls' = calls + 1
    /\ UNCHANGED <<world, heap, snapshot, panicked, loaderVars, game, ray,
                   buffer, look_back, hotbar, drain, input, chunk_loader>>

NextCollision == HandleCollision

SpecCollision == InitCollision /\ [][NextCollision]_vars

\* A normal with a positive vertical component
Upward(normal) == normal.v[2] > 0

\* C34: the collision resolution of a tick resolves at most 4 collisions,
\* and fewer than 4 only when no collision is left between the position the
\* tick started from and the position it ends at; on_ground after it is
\* true exactly when one of the collisions it resolved has a normal with a
\* positive vertical component, whatever on_ground was before.
C34_BoundedAndGrounded ==
    last.op = "handle_collision" =>
        /\ Len(last.normals) <= 4
        /\ Len(last.normals) < 4 =>
              collisions(game.blocks, camera.position, last.initial) = {}
        /\ motion.on_ground = (\E i \in 1..Len(last.normals) : Upward(last.normals[i]))

\* A tick that started on the ground and resolved a collision, none of them
\* with the ground: on_ground has been reset.
C34_Witness ==
    /\ last.op = "handle_collision"
    /\ last.on_ground
    /\ last.normals # <<>>
    /\ ~motion.on_ground

\* A tick that used all 4 iterations
C34_WitnessFour ==
    /\ last.op = "handle_collision"
    /\ Len(last.normals) = 4

(***************************************************************************)
(* The window and its two iterators (SpecWindow).                          *)
(***************************************************************************)
\* The chunk coordinates of origin +- extents
WindowOf(origin) ==
    {<<origin[1] + a, origin[2] + b, origin[3] + c>> :
        a \in -extents[1]..extents[1], b \in -extents[2]..extents[2],
        c \in -extents[3]..extents[3]}

\* The coordinates chunks_iter yields
LoadedCoords(w) == {c[1] : c \in chunks_iter(w)}

\* C33: in every state the coordinates unloaded_chunks yields and those
\* chunks_iter yields are disjoint and together are the window; the first
\* are the window coordinates whose slot is empty; chunks_iter yields one
\* pair for each loaded slot, the chunk of the slot with the coordinate
\* index - extents + origin, and chunk_to_index maps that coordinate back to
\* the index of the slot.
C33_WindowPartition ==
    /\ unloaded_chunks(world) \cap LoadedCoords(world) = {}
    /\ unloaded_chunks(world) \cup LoadedCoords(world) = WindowOf(world.origin)
    /\ unloaded_chunks(world) =
          {c \in WindowOf(world.origin) :
              /\ chunk_to_index(world.origin, c) # None
              /\ world.chunks[unwrap(chunk_to_index(world.origin, c))] = None}
    /\ Cardinality(chunks_iter(world)) =
          Cardinality({index \in Indices : world.chunks[index] # None})
    /\ \A c \in chunks_iter(world) :
          \E index \in Indices :
             /\ world.chunks[index] = Some(c[2])
             /\ c[1] = [i \in 1..3 |-> index[i] - extents[i] + world.origin[i]]
             /\ chunk_to_index(world.origin, c[1]) = Some(index)

\* A window moved off the zero origin with empty slots and loaded ones, one
\* of them loaded after the move.
C33_Witness ==
    /\ world.origin # Vec3Zero
    /\ unloaded_chunks(world) # {}
    /\ LoadedCoords(world) # {}
    /\ last.op = "load"
    /\ last.chunk_coord \in unloaded_chunks(last.before)
    /\ last.chunk_coord \in LoadedCoords(world)

(***************************************************************************)
(* The end of the ChunkLoader (SpecShutdown): requests, the workers and    *)
(* receive as in SpecLoader, and the drop of the last ChunkLoader handle   *)
(* at any moment.                                                          *)
(***************************************************************************)
\* The last clone of the ChunkLoader is dropped (struct ChunkLoader: handle,
\* tx, rx): the request channel has no sender and the result channel no
\* receiver from here on.  The worker threads are detached, not joined.
DropChunkLoader ==
    /\ ~panicked
    /\ chunk_loader.alive
    /\ chunk_loader' = [chunk_loader EXCEPT !.alive = FALSE]
    /\ last' = [op |-> "drop"]
    /\ UNCHANGED <<world, heap, snapshot, panicked, calls, loaderVars, game, ray,
                   buffer, look_back, hotbar, drain, input, camera, motion>>

NextShutdown ==
    \/ Request
    \/ \E w \in Workers : WorkerRecv(w)
    \/ \E w \in Workers : WorkerSend(w)
    \/ Receive
    \/ DropChunkLoader

SpecShutdown == InitWindow /\ [][NextShutdown]_vars

\* C40: no worker ever panics: whenever the ChunkLoader is dropped, a worker
\* that has ended, one that held a request at that moment included, has left
\* its loop by recv() returning Err, and no send of a result has failed.
C40_NoWorkerPanics ==
    \A w \in Workers : chunk_loader.ended[w] # "panicked"

(***************************************************************************)
(* Streaming: the end of Game::update (recentre, request, receive) and the *)
(* polling loop of Game::new, with the workers of the ChunkLoader.  The    *)
(* viewpoint is camera.position, in tenths of a block.                     *)
(***************************************************************************)
MaxMoves == 2

MaxPending == 5

\* World::new of the World game.rs uses: every slot is an Option<Chunk>, and
\* Array3::default leaves them None.
WorldNewUnloaded(origin) == [origin |-> origin, chunks |-> [index \in Indices |-> None]]

\* The coordinates of a set in the order indexed_iter visits their slots
in_index_order(coords) ==
    LET rank(c) == Cardinality({d \in coords : LexLess(d, c)}) + 1
    IN  [i \in 1..Cardinality(coords) |-> CHOOSE c \in coords : rank(c) = i]

\* Game::block_coordinate: camera.position.map(|e| e.floor() as i32)
block_coordinate(position) == [i \in 1..3 |-> position.v[i] \div (10 * position.d)]

\* Game::chunk_coordinate
chunk_coordinate(position) == world_to_chunk(block_coordinate(position))

\* chunk_coord.distance(origin) < extents.average(), on the squares
within_average_extent(origin, chunk_coord) ==
    LET offset == Vec3Sub(chunk_coord, origin)
        sum == extents[1] + extents[2] + extents[3]
    IN  9 * Vec3Dot(offset, offset) < sum * sum

\* The coordinates Game::update requests after set_origin, in order
unloaded_chunks_filtered(w) ==
    in_index_order({c \in unloaded_chunks(w) : within_average_extent(w.origin, c)})

\* The messages request puts on the channel for `sent`, numbered after the
\* `count` requests made before
request_all(sent, count) ==
    [i \in 1..Len(sent) |-> [id |-> count + i, chunk_coord |-> sent[i]]]

\* while let Some((chunk_coord, chunk)) = receive() { world.load(..) } on the
\* results q that are ready
RECURSIVE receive_first(_, _, _)
receive_first(w, q, n) ==
    IF n = 0 THEN w
    ELSE With(receive_first(w, q, n - 1), LAMBDA loaded : load(loaded, q[n].chunk_coord, q[n].chunk))

receive_all(w, q) == receive_first(w, q, Len(q))

\* The slot with a given number
IndexOf(h) == CHOOSE index \in Indices : IndexNumber(index) = h

\* Game::new, from the requests to the end of the polling loop, along the
\* schedule where every result is received in request order: the World and
\* the heap once the first `count` requests have been generated and loaded
GameNewRequests == in_index_order(unloaded_chunks(WorldNewUnloaded(Vec3Zero)))

GameNewHeap(count) == [h \in 1..count |-> GeneratedGrid(GameNewRequests[h])]

GameNewWorld(count) ==
    receive_all(WorldNewUnloaded(Vec3Zero),
                [h \in 1..count |-> [chunk_coord |-> GameNewRequests[h], chunk |-> Chunk(h)]])

\* game.set_block((6, 14, 8), LANTERN) and ((-8, 14, -8), LANTERN) at the end
\* of Game::new
game_new_lanterns(w, hp) ==
    With(set_block(w, hp, <<6, 14, 8>>, LANTERN),
         LAMBDA first : set_block(first.world, first.heap, <<-8, 14, -8>>, LANTERN))

\* Camera { position: (8.5, 48.0, 8.5), .. }
GameNewCamera == [position |-> [v |-> <<85, 480, 85>>, d |-> 1]]

(***************************************************************************)
(* Game::new (SpecGameNew).  The behaviours start when all but the last    *)
(* MaxPending requests have been served in request order.                  *)
(***************************************************************************)
InitGameNew ==
    /\ world = GameNewWorld(Len(GameNewRequests) - MaxPending)
    /\ heap = GameNewHeap(Len(GameNewRequests) - MaxPending)
    /\ tx = SubSeq(request_all(GameNewRequests, 0),
                   Len(GameNewRequests) - MaxPending + 1, Len(GameNewRequests))
    /\ rx = <<>>
    /\ thread = [w \in Workers |-> None]
    /\ requested = GameNewRequests
    /\ received = [i \in 1..(Len(GameNewRequests) - MaxPending) |-> i]
    /\ snapshot = None
    /\ panicked = FALSE
    /\ last = [op |-> "poll", ready |-> <<>>]
    /\ calls = 0
    /\ game = None
    /\ ray = None
    /\ InitOther

\* One turn of `while world.unloaded_chunks().next().is_some()`: every
\* result that is ready is received and loaded
GameNewPoll ==
    /\ last.op = "poll"
    /\ unloaded_chunks(world) # {}
    /\ world' = receive_all(world, rx)
    /\ received' = received \o [i \in 1..Len(rx) |-> rx[i].id]
    /\ rx' = <<>>
    /\ last' = [op |-> "poll", ready |-> rx]
    /\ UNCHANGED <<heap, snapshot, panicked, calls, tx, thread, requested, game, ray, otherVars>>

\* The loop ends when no slot is empty; the Game is built, the two lanterns
\* are set and Game::new returns
GameNewReturn ==
    /\ last.op = "poll"
    /\ unloaded_chunks(world) = {}
    /\ \E r \in {game_new_lanterns(world, heap)} :
          /\ world' = r.world
          /\ heap' = r.heap
          /\ panicked' = (r.ret = "panic")
    /\ camera' = GameNewCamera
    /\ last' = [op |-> "game_new", ready |-> <<>>]
    /\ UNCHANGED <<snapshot, calls, loaderVars, game, ray,
                   buffer, look_back, hotbar, drain, input, motion, chunk_loader>>

NextGameNew ==
    \/ \E w \in Workers : WorkerRecv(w)
    \/ \E w \in Workers : WorkerSend(w)
    \/ GameNewPoll
    \/ GameNewReturn

SpecGameNew == InitGameNew /\ [][NextGameNew]_vars

\* The scheduler runs every worker that can take a step, and the thread in
\* Game::new keeps polling.
SpecGameNewFair ==
    /\ SpecGameNew
    /\ \A w \in Workers : WF_vars(WorkerRecv(w)) /\ WF_vars(WorkerSend(w))
    /\ WF_vars(GameNewPoll)
    /\ WF_vars(GameNewReturn)

(***************************************************************************)
(* Ticks after Game::new (SpecStream).                                     *)
(***************************************************************************)
\* Where the viewpoint is at the end of the movement of a tick: in the
\* chunks (0, 0, 0), (1, 0, 0), (0, 2, 0), and in (0, 3, 0) where Game::new
\* puts it
ViewPositions ==
    {[v |-> <<85, 100, 85>>, d |-> 1], [v |-> <<245, 100, 85>>, d |-> 1],
     [v |-> <<85, 400, 85>>, d |-> 1], GameNewCamera.position}

InitStream ==
    /\ \E r \in {game_new_lanterns(GameNewWorld(Len(GameNewRequests)),
                                     GameNewHeap(Len(GameNewRequests)))} :
          /\ world = r.world
          /\ heap = r.heap
    /\ tx = <<>>
    /\ rx = <<>>
    /\ thread = [w \in Workers |-> None]
    /\ requested = GameNewRequests
    /\ received = [i \in 1..Len(GameNewRequests) |-> i]
    /\ snapshot = None
    /\ panicked = FALSE
    /\ last = [op |-> "game_new", ready |-> <<>>]
    /\ calls = 0
    /\ game = None
    /\ ray = None
    /\ camera = GameNewCamera
    /\ input = None
    /\ motion = None
    /\ chunk_loader = ChunkLoaderNew
    /\ buffer = None
    /\ look_back = None
    /\ hotbar = None
    /\ drain = None

\* The end of Game::update with the viewpoint at `position`: set_origin and
\* the requests when the chunk coordinate is not the origin, then the
\* receive loop
UpdateStreaming(position) ==
    /\ ~panicked
    /\ chunk_loader.alive
    /\ \E moved \in {chunk_coordinate(position) # world.origin} :
       \E recentred \in {IF moved THEN set_origin(world, chunk_coordinate(position))
                          ELSE world} :
       \E sent \in {IF moved THEN unloaded_chunks_filtered(recentred) ELSE <<>>} :
          /\ tx' = tx \o request_all(sent, Len(requested))
          /\ requested' = requested \o sent
          /\ world' = receive_all(recentred, rx)
          /\ last' = [op |-> "update", moved |-> moved, before |-> world,
                      recentred |-> recentred, sent |-> sent, ready |-> rx]
    /\ received' = received \o [i \in 1..Len(rx) |-> rx[i].id]
    /\ rx' = <<>>
    /\ camera' = [position |-> position]
    /\ UNCHANGED <<heap, snapshot, panicked, thread, game, ray,
                   buffer, look_back, hotbar, drain, input, motion, chunk_loader>>

\* A tick in which the viewpoint moves
Move ==
    /\ calls < MaxMoves
    /\ \E position \in ViewPositions : UpdateStreaming(position)
    /\ calls' = calls + 1

\* A tick in which the viewpoint stays where it is
Stay ==
    /\ UpdateStreaming(camera.position)
    /\ UNCHANGED calls

NextStream ==
    \/ Move
    \/ Stay
    \/ \E w \in Workers : WorkerRecv(w)
    \/ \E w \in Workers : WorkerSend(w)

SpecStream == InitStream /\ [][NextStream]_vars

\* The scheduler runs every worker that can take a step, and the game keeps
\* ticking.
SpecStreamFair ==
    /\ SpecStream
    /\ \A w \in Workers : WF_vars(WorkerRecv(w)) /\ WF_vars(WorkerSend(w))
    /\ WF_vars(Stay)

\* Game::new has returned
Returned == last.op = "game_new"

\* No element twice
NoRepeat(s) == \A i, j \in 1..Len(s) : s[i] = s[j] => i = j

\* C38: Game::new has requested every coordinate of the window of the new
\* World, all of them unloaded, once each; under worker fairness it returns,
\* its polling loop having received finitely many results; and when it has
\* returned every coordinate of the window is loaded.
C38_GameNewTerminates ==
    /\ [](/\ Range(requested) = WindowOf(Vec3Zero)
          /\ NoRepeat(requested))
    /\ <>Returned
    /\ [](Returned => /\ unloaded_chunks(world) = {}
                      /\ LoadedCoords(world) = WindowOf(Vec3Zero)
                      /\ Len(received) = Len(requested))

\* Game::new has returned after a result overtook an earlier request's.
C38_Witness ==
    /\ Returned
    /\ unloaded_chunks(world) = {}
    /\ \E i \in 1..(Len(received) - 1) : received[i] > received[i + 1]

\* The tick that has just ended
Ticked == last.op = "update"

\* The coordinates of the requests a tick sent
Sent == Range(last.sent)

\* C32: at the end of a tick in which the viewpoint's chunk coordinate
\* differed from the origin, the origin is the viewpoint's chunk coordinate
\* and a request has been sent for every coordinate of the new window that
\* set_origin left unloaded; at the end of a tick in which it did not
\* differ, the World has the origin and the slots it had before the tick
\* but for the results loaded, and no request has been sent; in both, every
\* result that was ready has been received.
C32_RequestsNewlyExposed ==
    Ticked =>
        /\ world.origin = chunk_coordinate(camera.position)
        /\ last.moved => unloaded_chunks(last.recentred) \subseteq Sent
        /\ ~last.moved => (last.recentred = last.before /\ last.sent = <<>>)
        /\ rx = <<>>
        /\ world = receive_all(last.recentred, last.ready)

\* C36: in every state each loaded slot holds a chunk generated for the
\* coordinate the slot has under the current origin; and at the end of a
\* tick a result that was ready, whatever origin it was requested under, is
\* in the slot of its coordinate under the origin of that moment when the
\* coordinate is in the window, and in no slot at all when it is not.
C36_SlotHoldsItsCoordinate ==
    /\ \A index \in Indices :
          world.chunks[index] # None =>
             heap[unwrap(world.chunks[index]).blocks].fill
                = Some(index_to_coord(world.origin, index))
    /\ Ticked =>
          \A i \in 1..Len(last.ready) :
             IF InWindow(world.origin, last.ready[i].chunk_coord)
             THEN LoadedAt(world, last.ready[i].chunk_coord) # None
             ELSE \A index \in Indices : world.chunks[index] # Some(last.ready[i].chunk)

\* A tick recentred the window and loaded a result whose request was sent
\* under another origin.
C36_Witness ==
    /\ Ticked
    /\ last.moved
    /\ \E i \in 1..Len(last.ready) :
          /\ last.ready[i].chunk_coord # world.origin
          /\ LoadedAt(world, last.ready[i].chunk_coord) = Some(last.ready[i].chunk)

\* A tick recentred the window and dropped a result whose coordinate had
\* left it.
C36_WitnessDiscarded ==
    /\ Ticked
    /\ last.moved
    /\ \E i \in 1..Len(last.ready) : ~InWindow(world.origin, last.ready[i].chunk_coord)

\* C37: under worker fairness, once the viewpoint has stopped crossing chunk
\* boundaries every coordinate of the window is eventually loaded and stays
\* loaded.
C37_WindowRefills == <>[](unloaded_chunks(world) = {})

====
